---- MODULE Spec2Model ----
(***************************************************************************)
(* Interactive avatar client: the session hook (useStreamingAvatarSession), *)
(* the ending sequencer of InteractiveAvatar (debounce and countdown        *)
(* timers) and the video presentation of AvatarVideo, as one state machine. *)
(*                                                                          *)
(* Time is in milliseconds and relative: a pending setTimeout is a record   *)
(* with the time left until it fires, a Date.now() timestamp is kept as its *)
(* age.  The timers whose handle the code keeps carry an id, the handle.    *)
(* A React closure is modelled by the values it captured at the render in   *)
(* which it was created: the fields eng, last and st of a startSessionV2    *)
(* invocation, the field tgt of a presentation timer.                       *)
(*                                                                          *)
(* Spec is the slice made of the session hook and the sequencer, which read *)
(* nothing that AvatarVideo writes; SpecVideo adds AvatarVideo to one       *)
(* session.  SpecGate is the volume gate of useAudioMonitor on its own,     *)
(* sampled with jitter; SpecSeries is the gate sampled at exactly the check *)
(* interval, with the series of samples kept.                               *)
(***************************************************************************)
EXTENDS Integers, FiniteSets, Sequences, TLC

\* ---------------------------------------------------------------- bounds
MaxStarts == 1
\* sessions the list-sessions endpoint may report
MaxSessions == 2
\* the length of the loop clip, in steps of its playback
LoopLen == 2
\* 'ended' events of the loop element
MaxLoopEnds == 2
\* entries pushed to the logger's buffer
MaxLogs == 102
\* stopAvatar() rejections per transport object
MaxStopRejects == 1
\* samples of one monitoring run whose series is kept
MaxSamples == 5
\* playVideo calls of the older VideoController suspended in stopAllVideos
MaxCalls == 2

\* ------------------------------------------------------- program constants
DEBOUNCE_MS == 3000
RECENT_MS == 2000
COUNTDOWN_MS == 5000
ENDING_DELAY_MS == 100
DISCONNECT_GRACE_MS == 3000
FORCE_STREAMING_MS == 500
PLAY_DELAY_MS == 50
LOAD_DELAY_MS == 50
FALLBACK_MS == 200
LOAD_WAIT_MS == 500
MOUNT_DELAY_MS == 100
\* the audio monitor's configuration
volumeThreshold == 20
checkInterval == 100
sustainDuration == 100

\* the clock advances by at most half the recency window, so that timestamps
\* younger than, as old as and older than the window are all met; an age is
\* followed up to the window, beyond which the code treats all ages alike
TickMs == RECENT_MS \div 2
AgeCap == RECENT_MS

\* the loudness of a sample, in percent: below, at and above the threshold
Volumes == {volumeThreshold - 15, volumeThreshold, volumeThreshold + 5}

\* the time between two samples: the check interval, and with the jitter of
\* setInterval one millisecond or one millisecond less than the sustain
\* duration
Gaps == {1, sustainDuration - 1, checkInterval}

\* a duration is followed up to one millisecond past the sustain duration,
\* beyond which the gate treats all durations alike
DurationCap == sustainDuration + 1

VARIABLES
  timers,               \* the pending setTimeout callbacks
  sessionState,         \* context: StreamingAvatarSessionState
  stream,               \* context: stream # null
  isMuted,              \* context: isMuted
  isVoiceChatActive,    \* context: isVoiceChatActive
  avatarRef,            \* context: avatarRef.current (0 = null)
  readyReg,             \* per avatar: handleStream registered for STREAM_READY
  pendingStops,         \* stop() calls suspended at 'await stopAvatar()'
  tstate,               \* per avatar: the transport's own state
  teardownCalls,        \* per avatar: calls of the transport's stopAvatar()
  isEnglish,            \* InteractiveAvatar state
  lastAvatarMessageTime, \* InteractiveAvatar state
  debounceTimerRef,     \* InteractiveAvatar ref (0 = null)
  countdownTimerRef,    \* InteractiveAvatar ref (0 = null)
  shouldUnmute,         \* shouldUnmuteOnFirstStopRef.current
  inv,                  \* the startSessionV2 invocations
  video,                \* AvatarVideo is part of the system
  calls,                \* older VideoController: playVideo calls awaiting 'pause' events
  cleanup,              \* the run of closeAllActiveSessions
  route,                \* the run of the force-close endpoint's POST handler
  logger,               \* the SmartLogger instance
  loopVideoRef,         \* the loop element: its position and its pending 'ended' event
  middleClickTimer,     \* state: the handle of the middle-click timer (0: null)
  isSessionStarting,    \* state: a start made by a middle click is under way
  videoState,           \* AvatarVideo state
  isEndingVideoPlaying, \* AvatarVideo state
  isErrorVideoPlaying,  \* AvatarVideo state
  endingLanguage,       \* AvatarVideo state
  playing,              \* the video elements that are not paused
  endingHandler,        \* ending element: onloadeddata
  endingLoading,        \* ending element: a load() whose data has not arrived
  errorHandler,         \* error element: onloadeddata
  errorLoading,         \* error element: a load() whose data has not arrived
  startingLang,         \* language of the latest session-starting event
  endingLang,           \* language of the latest session-ending event
  endingCount,          \* session-ending events dispatched
  countdownFired,       \* countdown callbacks run
  startsSinceInactive,  \* createStartAvatar calls since the state was last set INACTIVE
  errorCount,           \* session-error events dispatched
  errorLang,            \* language of the latest session-error event
  stopRejected,         \* stop() calls that threw at 'await stopAvatar()'
  srcObject,            \* mediaStream.current.srcObject and its metadata
  isMonitoringRef,      \* useAudioMonitor: the sampling interval is live
  highVolumeStartTimeRef, \* useAudioMonitor ref (a timestamp or null)
  lowVolumeStartTimeRef,  \* useAudioMonitor ref (a timestamp or null)
  currentlyMutedRef,    \* useAudioMonitor ref
  gateFired,            \* what the latest sample called: mute, unmute or none
  gateLast,             \* the latest call of the monitoring run
  episodeMutes,         \* mute calls since the level last rose above the threshold
  episodeStartMuted,    \* currentlyMutedRef when the level last rose above it
  series,               \* the samples of the run: volume and call
  startResult,          \* how the latest startMonitoring call returned
  regular               \* the samples come at exactly the check interval

auxVars == <<cleanup, route, logger, loopVideoRef>>
midVars == <<middleClickTimer, isSessionStarting>>
sideVars == <<auxVars, midVars>>
ctxVars == <<stream, isMuted, isVoiceChatActive, readyReg, pendingStops,
             teardownCalls>>
seqVars == <<debounceTimerRef, countdownTimerRef>>
presVars == <<videoState, isEndingVideoPlaying, isErrorVideoPlaying,
              endingLanguage, playing, endingHandler, endingLoading,
              errorHandler, errorLoading>>
elemVars == <<endingHandler, endingLoading, errorHandler, errorLoading>>
obsVars == <<startingLang, endingLang, endingCount, countdownFired>>
errVars == <<errorCount, errorLang>>
gateRefs == <<isMonitoringRef, highVolumeStartTimeRef, lowVolumeStartTimeRef,
              currentlyMutedRef>>
gateObs == <<gateFired, gateLast, episodeMutes, episodeStartMuted, series,
             startResult, regular>>
gateVars == <<gateRefs, gateObs>>

vars == <<timers, sessionState, ctxVars, avatarRef, tstate, isEnglish,
          lastAvatarMessageTime, seqVars, shouldUnmute, inv, video, calls, sideVars, presVars,
          obsVars, startsSinceInactive, errVars, stopRejected, srcObject,
          gateVars>>

\* a startSessionV2 invocation and the transport object it makes share an index
Avatars == DOMAIN inv

\* the session ids of the remote service
Sessions == 1..MaxSessions

Surfaces == {"loop", "intro", "streaming", "ending", "error"}

Lang(e) == IF e THEN "en" ELSE "tr"

\* the timestamp 0, and the timestamp Date.now() returns (of age 0)
NoStamp == [set |-> FALSE, age |-> 0]
DateNow == [set |-> TRUE, age |-> 0]

\* a timestamp d ms later
Older(s, d) ==
  IF s.set THEN [s EXCEPT !.age = IF @ + d > AgeCap THEN AgeCap ELSE @ + d] ELSE s

\* setTimeout(callback, delay) whose handle is dropped: i is the invocation
\* whose closure the callback holds (0: none), v the target surface or the
\* videoState of the callback's closure
Timer(k, delay, i, v) ==
  [kind |-> k, left |-> delay, inv |-> i, tgt |-> v, id |-> 0]

\* setTimeout(callback, delay) returning the handle h
Handle(k, delay, i, h) ==
  [kind |-> k, left |-> delay, inv |-> i, tgt |-> "none", id |-> h]

\* closeAllActiveSessions before it is called: no session listed, no request
\* issued (closes, hard: the requests sent per session id)
NoCleanup ==
  [pc |-> "idle", listed |-> {}, toClose |-> {}, closes |-> [s \in Sessions |-> 0],
   relisted |-> {}, toHard |-> {}, hard |-> [s \in Sessions |-> 0],
   failed |-> {}]

\* the force-close endpoint before a request: no attempt made, no upstream
\* request sent, no wait made (waits: the time waited in each attempt that is
\* followed by another), no error kept, no response returned
NoRoute ==
  [pc |-> "idle", session_id |-> 0, attempt |-> 0, sent |-> 0, waits |-> <<>>,
   waited |-> 0, lastError |-> "none", status |-> 0]

\* enum LogLevel
LogLevel == [ERROR |-> 0, WARN |-> 1, INFO |-> 2, DEBUG |-> 3, TRACE |-> 4]

\* SmartLogger.instance before getInstance() has made it (pushed: the entries
\* pushed so far; last: the method called last and how the call ended).  An
\* entry of logBuffer is the number of its push; the timestamp, level,
\* message and data of an entry are carried along by shift and push.
NoLogger ==
  [made |-> FALSE, logLevel |-> LogLevel.WARN, logBuffer |-> <<>>, pushed |-> 0,
   last |-> <<"none", "none">>]

NoInv ==
  [pc |-> "idle", arg |-> FALSE, eng |-> FALSE, last |-> NoStamp, st |-> "inactive"]

\* the clips of the older AvatarVideo
Clips == {"loop", "intro", "ending"}

Min(S) == CHOOSE x \in S : \A y \in S : x <= y

Due(t) == t \in timers /\ t.left = 0

\* the handle setTimeout returns next: one that no pending timer of T and no
\* ref holds
FreshId(T) ==
  Min({n \in 1..(Cardinality(T) + 3) :
         /\ \A t \in T : t.id # n
         /\ n \notin {debounceTimerRef, countdownTimerRef}})

\* clearTimeout(h): clears nothing when h is null or the handle of a timer
\* that has fired
Cleared(T, h) == {t \in T : h = 0 \/ t.id # h}

\* clearTimeout of both sequencer refs
ClearedTimers == Cleared(Cleared(timers, debounceTimerRef), countdownTimerRef)

\* the sequencer's pending timers
SeqPending == {t \in timers : t.kind \in {"debounce", "countdown"}}

InitFor(n, v, r) ==
  /\ timers = IF v THEN {Timer("play", MOUNT_DELAY_MS, 0, "loop")} ELSE {}
  /\ sessionState = "inactive"
  /\ stream = FALSE
  /\ isMuted = TRUE
  /\ isVoiceChatActive = FALSE
  /\ avatarRef = 0
  /\ readyReg = [a \in 1..n |-> FALSE]
  /\ pendingStops = 0
  /\ tstate = [a \in 1..n |-> "none"]
  /\ teardownCalls = [a \in 1..n |-> 0]
  /\ isEnglish = FALSE
  /\ lastAvatarMessageTime = NoStamp
  /\ debounceTimerRef = 0
  /\ countdownTimerRef = 0
  /\ shouldUnmute = FALSE
  /\ inv = [i \in 1..n |-> NoInv]
  /\ video = v
  /\ calls = {}
  /\ cleanup = NoCleanup
  /\ route = NoRoute
  /\ logger = NoLogger
  /\ middleClickTimer = 0
  /\ isSessionStarting = FALSE
  /\ loopVideoRef = [currentTime |-> 0, ended |-> FALSE, restarts |-> 0]
  /\ videoState = "loop"
  /\ isEndingVideoPlaying = FALSE
  /\ isErrorVideoPlaying = FALSE
  /\ endingLanguage = "tr"
  /\ playing = IF v THEN {"loop"} ELSE {}
  /\ endingHandler = "none"
  /\ endingLoading = FALSE
  /\ errorHandler = "none"
  /\ errorLoading = FALSE
  /\ startingLang = "none"
  /\ endingLang = "none"
  /\ endingCount = 0
  /\ countdownFired = 0
  /\ startsSinceInactive = 0
  /\ errorCount = 0
  /\ errorLang = "none"
  /\ stopRejected = [a \in 1..n |-> 0]
  /\ srcObject = "null"
  /\ isMonitoringRef = FALSE
  /\ highVolumeStartTimeRef = NoStamp
  /\ lowVolumeStartTimeRef = NoStamp
  /\ currentlyMutedRef = FALSE
  /\ gateFired = "none"
  /\ gateLast = "none"
  /\ episodeMutes = 0
  /\ episodeStartMuted = FALSE
  /\ series = <<>>
  /\ startResult = "none"
  /\ regular = r

\* the page after its first render: no session, no transport object
Init == InitFor(MaxStarts, FALSE, FALSE)

\* the same with room for one more invocation of startSessionV2
InitOverlap == InitFor(MaxStarts + 1, FALSE, FALSE)

\* the same with AvatarVideo, for one session
InitVideo == InitFor(1, TRUE, FALSE)

\* the same with the series of samples kept
InitSeries == InitFor(MaxStarts, FALSE, TRUE)

\* ------------------------------------------------------------ AvatarVideo
\* A handler of AvatarVideo maps the presentation state to the presentation
\* state it leaves; 'add' collects the timers it sets.

Pres ==
  [vs |-> videoState, endp |-> isEndingVideoPlaying, errp |-> isErrorVideoPlaying,
   elang |-> endingLanguage, playing |-> playing, add |-> {}]

\* handleVideoStateChange(newState) of the render whose videoState is cvs
HandleVideoStateChange(p, cvs, newState) ==
  IF newState = cvs THEN p
  ELSE IF newState = "streaming"
    THEN [p EXCEPT !.vs = "streaming", !.playing = @ \cap {"streaming"}]
    ELSE [p EXCEPT !.vs = newState,
                   !.add = @ \cup {Timer("play", PLAY_DELAY_MS, 0, newState)}]

\* 'session-starting': the intro element is reloaded after 50 ms and, unless
\* the state is already intro, played by the 50 ms timer set right after it
HandleSessionStarting(p, lang) ==
  LET q == [p EXCEPT !.elang = lang] IN
  IF videoState = "intro"
    THEN [q EXCEPT !.add = @ \cup {Timer("loadIntro", LOAD_DELAY_MS, 0, "intro")}]
    ELSE HandleVideoStateChange(q, videoState, "intro")

\* (mutation of HandleAvatarStartTalking: an ending that is shown is left to
\* finish)
HandleAvatarStartTalkingKeepsEnding(p) ==
  IF videoState \notin {"streaming", "ending"}
    THEN HandleVideoStateChange([p EXCEPT !.playing = @ \ {videoState}],
                                videoState, "streaming")
    ELSE p

\* 'avatar-start-talking'
HandleAvatarStartTalking(p) ==
  IF videoState # "streaming"
    THEN HandleVideoStateChange(
           [p EXCEPT !.playing = @ \ {videoState},
                     !.endp = IF videoState = "ending" THEN FALSE ELSE @],
           videoState, "streaming")
    ELSE p

\* 'session-ending'
HandleSessionEnding(p, lang) ==
  IF videoState = "ending" /\ isEndingVideoPlaying THEN p
  ELSE [p EXCEPT !.elang = lang, !.endp = TRUE,
                 !.add = @ \cup {Timer("endLoad", LOAD_DELAY_MS, 0, videoState)}]

\* 'session-error'
HandleSessionError(p) ==
  IF videoState = "error" /\ isErrorVideoPlaying THEN p
  ELSE [p EXCEPT !.endp = IF isEndingVideoPlaying /\ videoState # "error"
                            THEN FALSE ELSE @,
                 !.errp = TRUE,
                 !.add = @ \cup {Timer("errLoad", LOAD_DELAY_MS, 0, videoState)}]

\* (mutation of SessionEffect: INACTIVE shows the loop whatever is announced)
SessionEffectAlwaysLoop(p, newState) ==
  IF newState = sessionState THEN p
  ELSE IF newState = "inactive"
    THEN HandleVideoStateChange(p, videoState, "loop")
  ELSE IF newState = "connecting"
    THEN [p EXCEPT !.endp = FALSE]
  ELSE IF videoState # "streaming"
    THEN HandleVideoStateChange(p, videoState, "streaming")
    ELSE p

\* the effect on [sessionState], run when the session state becomes newState
SessionEffect(p, newState) ==
  IF newState = sessionState THEN p
  ELSE IF newState = "inactive"
    THEN IF videoState # "ending" /\ ~isEndingVideoPlaying
           THEN HandleVideoStateChange(p, videoState, "loop")
           ELSE p
  ELSE IF newState = "connecting"
    THEN [p EXCEPT !.endp = FALSE]
  ELSE IF videoState # "streaming"
    THEN HandleVideoStateChange(p, videoState, "streaming")
    ELSE p

\* the effect on [isEnglish, sessionState, endingLanguage, videoState], run in
\* the render that follows a handler: e and s are the isEnglish prop and the
\* session state of that render
LanguageEffect(p, e, s) ==
  IF p.elang = Lang(e) THEN p
  ELSE IF s = "inactive" /\ p.vs # "ending"
    THEN LET q == HandleVideoStateChange([p EXCEPT !.elang = Lang(e)], p.vs, "loop")
         IN [q EXCEPT !.add = @ \cup {Timer("reload", MOUNT_DELAY_MS, 0, "none")}]
    ELSE [p EXCEPT !.elang = Lang(e)]

\* the presentation state after a handler that left p, in a render with
\* isEnglish = e and sessionState = s
Render(p, e, s) ==
  LET q == IF video THEN LanguageEffect(p, e, s) ELSE Pres IN
  /\ videoState' = q.vs
  /\ isEndingVideoPlaying' = q.endp
  /\ isErrorVideoPlaying' = q.errp
  /\ endingLanguage' = q.elang
  /\ playing' = q.playing

\* the timers set by a handler that left p and by the render that follows
Added(p, e, s) == IF video THEN LanguageEffect(p, e, s).add ELSE {}


\* ---------------------------------------------------------- useAudioMonitor
\* The refs highVolumeStartTimeRef and lowVolumeStartTimeRef hold null
\* (NoStamp here) or the Date.now() of the sample that began the run of high
\* or low samples, kept as its age.

\* the age of a start time d ms later
Elapsed(s, d) ==
  IF s.set
    THEN [s EXCEPT !.age = IF @ + d > DurationCap THEN DurationCap ELSE @ + d]
    ELSE s

\* the elements startMonitoring is given: no element, an element with no
\* srcObject, one whose stream has no audio track, one for whose stream the
\* audio graph cannot be built, and elements with a stream that has audio
Elements == {"none", "null", "notrack", "throws", "loading", "loaded"}

\* (mutation of StartOutcome: an element without a stream is not refused)
StartOutcomeUnchecked(el) ==
  IF isMonitoringRef THEN "already" ELSE "started"

\* how startMonitoring(el) returns
StartOutcome(el) ==
  IF isMonitoringRef THEN "already"
  ELSE IF el \in {"none", "null"} THEN "nostream"
  ELSE IF el = "notrack" THEN "notrack"
  ELSE IF el = "throws" THEN "caught"
  ELSE "started"

\* startMonitoring(videoElement), el being the srcObject of the element: it
\* returns when the monitor is running, the element has no stream or the
\* stream no audio track, and when building the audio graph throws; else it
\* sets the sampling interval.  A monitoring run begins: its calls are
\* counted from here.
StartMonitoring(el) ==
  IF StartOutcome(el) # "started"
    THEN /\ startResult' = StartOutcome(el)
         /\ UNCHANGED <<gateRefs, gateFired, gateLast, episodeMutes,
                        episodeStartMuted, series, regular>>
    ELSE /\ isMonitoringRef' = TRUE
         /\ startResult' = "started"
         /\ gateFired' = "none"
         /\ gateLast' = "none"
         /\ episodeMutes' = 0
         /\ episodeStartMuted' = FALSE
         /\ series' = <<>>
         /\ UNCHANGED <<highVolumeStartTimeRef, lowVolumeStartTimeRef,
                        currentlyMutedRef, regular>>

\* (mutation of StopMonitoring: the refs are reset but the interval is left)
StopMonitoringKeepsInterval ==
  /\ highVolumeStartTimeRef' = NoStamp
  /\ lowVolumeStartTimeRef' = NoStamp
  /\ currentlyMutedRef' = FALSE
  /\ gateFired' = "none"
  /\ UNCHANGED <<isMonitoringRef, gateLast, episodeMutes, episodeStartMuted,
                 series, startResult, regular>>

\* stopMonitoring(): it returns when the monitor is not running; else it
\* clears the interval, releases the audio graph and resets the refs
StopMonitoring ==
  IF ~isMonitoringRef
    THEN UNCHANGED gateVars
    ELSE /\ isMonitoringRef' = FALSE
         /\ highVolumeStartTimeRef' = NoStamp
         /\ lowVolumeStartTimeRef' = NoStamp
         /\ currentlyMutedRef' = FALSE
         /\ gateFired' = "none"
         /\ UNCHANGED <<gateLast, episodeMutes, episodeStartMuted, series,
                        startResult, regular>>

\* the start time a sample, taken d ms after the one before it, finds or sets
\* in ref: 'if (ref.current === null) ref.current = now'
StartTime(ref, d) == IF ref.set THEN Elapsed(ref, d) ELSE DateNow

\* (mutation of Fires: no sustain duration is required)
FiresAtOnce(volume, d) ==
  IF volume > volumeThreshold
    THEN IF ~currentlyMutedRef THEN "mute" ELSE "none"
    ELSE IF currentlyMutedRef THEN "unmute" ELSE "none"

\* (mutation of Fires: the duration has to exceed the sustain duration)
FiresStrictlyLonger(volume, d) ==
  IF volume > volumeThreshold
    THEN IF /\ StartTime(highVolumeStartTimeRef, d).age > sustainDuration
            /\ ~currentlyMutedRef
           THEN "mute" ELSE "none"
    ELSE IF /\ StartTime(lowVolumeStartTimeRef, d).age > sustainDuration
            /\ currentlyMutedRef
           THEN "unmute" ELSE "none"

\* (mutation of Fires: the muted flag is not read)
FiresWithoutFlag(volume, d) ==
  IF volume > volumeThreshold
    THEN IF StartTime(highVolumeStartTimeRef, d).age >= sustainDuration
           THEN "mute" ELSE "none"
    ELSE IF StartTime(lowVolumeStartTimeRef, d).age >= sustainDuration
           THEN "unmute" ELSE "none"

\* what processVolumeLevel(volume) calls, sideVars, d ms after the sample before it
Fires(volume, d) ==
  IF volume > volumeThreshold
    THEN IF /\ StartTime(highVolumeStartTimeRef, d).age >= sustainDuration
            /\ ~currentlyMutedRef
           THEN "mute" ELSE "none"
    ELSE IF /\ StartTime(lowVolumeStartTimeRef, d).age >= sustainDuration
            /\ currentlyMutedRef
           THEN "unmute" ELSE "none"

\* the interval callback: calculateVolume() gives volume, d ms after the
\* sample before it, and processVolumeLevel(volume) runs.  muteInputAudio and
\* unmuteInputAudio return at once when there is no transport object.
ProcessVolumeLevel(volume, d) ==
  /\ isMonitoringRef
  /\ regular => (d = checkInterval /\ Len(series) < MaxSamples)
  /\ LET call == Fires(volume, d) IN
     /\ IF volume > volumeThreshold
          THEN /\ highVolumeStartTimeRef' = StartTime(highVolumeStartTimeRef, d)
               /\ lowVolumeStartTimeRef' = NoStamp
               /\ episodeMutes' =
                    (IF highVolumeStartTimeRef.set THEN episodeMutes ELSE 0)
                    + (IF call = "mute" THEN 1 ELSE 0)
               /\ episodeStartMuted' =
                    (IF highVolumeStartTimeRef.set THEN episodeStartMuted
                                                  ELSE currentlyMutedRef)
          ELSE /\ lowVolumeStartTimeRef' = StartTime(lowVolumeStartTimeRef, d)
               /\ highVolumeStartTimeRef' = NoStamp
               /\ UNCHANGED <<episodeMutes, episodeStartMuted>>
     /\ currentlyMutedRef' =
          (IF call = "none" THEN currentlyMutedRef ELSE call = "mute")
     /\ isMuted' = IF call = "none" \/ avatarRef = 0 THEN isMuted ELSE call = "mute"
     /\ gateFired' = call
     /\ gateLast' = IF call = "none" THEN gateLast ELSE call
     /\ series' = IF regular THEN Append(series, [volume |-> volume, call |-> call])
                             ELSE series
  /\ UNCHANGED <<timers, sessionState, stream, isVoiceChatActive, readyReg,
                 pendingStops, teardownCalls, avatarRef, tstate, isEnglish,
                 lastAvatarMessageTime, seqVars, shouldUnmute, inv, video, calls, sideVars,
                 presVars, obsVars, startsSinceInactive, errVars, stopRejected,
                 srcObject, isMonitoringRef, startResult, regular>>

\* startMonitoring(videoElement) called by a user of the hook, with any element
CallStartMonitoring(el) ==
  /\ StartMonitoring(el)
  /\ UNCHANGED <<timers, sessionState, ctxVars, avatarRef, tstate, isEnglish,
                 lastAvatarMessageTime, seqVars, shouldUnmute, inv, video, calls, sideVars,
                 presVars, obsVars, startsSinceInactive, errVars, stopRejected,
                 srcObject>>

\* stopMonitoring() called by a user of the hook
CallStopMonitoring ==
  /\ StopMonitoring
  /\ UNCHANGED <<timers, sessionState, ctxVars, avatarRef, tstate, isEnglish,
                 lastAvatarMessageTime, seqVars, shouldUnmute, inv, video, calls, sideVars,
                 presVars, obsVars, startsSinceInactive, errVars, stopRejected,
                 srcObject>>
\* ------------------------------------------------------------ session hook

\* useStreamingAvatarSession.stop up to its 'await': the writes it makes and
\* the transport's stopAvatar().  Every caller runs after initAvatar, so the
\* transport object exists.  ts is the transport state left by the event that
\* led here.
StopCall(ts) ==
  /\ avatarRef # 0
  /\ stream' = FALSE
  /\ readyReg' = [readyReg EXCEPT ![avatarRef] = FALSE]
  /\ isVoiceChatActive' = FALSE
  /\ isMuted' = TRUE
  /\ teardownCalls' = [teardownCalls EXCEPT ![avatarRef] = @ + 1]
  /\ tstate' = [ts EXCEPT ![avatarRef] =
                  IF @ \in {"starting", "live"} THEN "stopping" ELSE @]
  /\ pendingStops' = pendingStops + 1

\* InteractiveAvatar's effect on [sessionState]
ConnectedEffect(newState) ==
  IF newState = "connected" /\ sessionState # "connected" /\ ~shouldUnmute
    THEN TRUE
    ELSE shouldUnmute

\* the transport's stopAvatar() promise resolves: stop() resumes and sets the
\* session state INACTIVE
StopResolve ==
  /\ pendingStops > 0
  /\ pendingStops' = pendingStops - 1
  /\ sessionState' = "inactive"
  /\ startsSinceInactive' = 0
  /\ Render(SessionEffect(Pres, "inactive"), isEnglish, "inactive")
  /\ timers' = timers \cup Added(SessionEffect(Pres, "inactive"), isEnglish, "inactive")
  /\ UNCHANGED <<stream, isMuted, isVoiceChatActive, readyReg, teardownCalls,
                 avatarRef, tstate, isEnglish, lastAvatarMessageTime, seqVars,
                 shouldUnmute, inv, video, calls, sideVars, elemVars, obsVars, errVars,
                 stopRejected, srcObject, gateVars>>

\* the transport's stopAvatar() promise rejects: stop() throws at its 'await'
\* and the statements after it do not run.  No caller of stop() awaits or
\* catches it.
StopReject ==
  /\ pendingStops > 0
  /\ avatarRef # 0
  /\ stopRejected[avatarRef] < MaxStopRejects
  /\ pendingStops' = pendingStops - 1
  /\ stopRejected' = [stopRejected EXCEPT ![avatarRef] = @ + 1]
  /\ UNCHANGED <<timers, sessionState, stream, isMuted, isVoiceChatActive,
                 readyReg, teardownCalls, avatarRef, tstate, isEnglish,
                 lastAvatarMessageTime, seqVars, shouldUnmute, inv, video, calls, sideVars,
                 presVars, obsVars, startsSinceInactive, errVars, srcObject,
                 gateVars>>

\* the close button of AvatarVideo (rendered while CONNECTED): onClick =
\* stopAvatar.  It is clicked while no stop() is in flight.
ManualStop ==
  /\ sessionState = "connected"
  /\ pendingStops = 0
  /\ StopCall(tstate)
  /\ UNCHANGED <<timers, sessionState, avatarRef, isEnglish,
                 lastAvatarMessageTime, seqVars, shouldUnmute, inv, video, calls, sideVars,
                 presVars, startingLang, endingLang, endingCount,
                 countdownFired, startsSinceInactive,
                 errVars, stopRejected, srcObject, gateVars>>

\* --------------------------------------------------------- startSessionV2

\* startSessionV2(true, e) up to 'await fetchAccessToken()', as invocation i:
\* a pending middle-click timer is cleared, isEnglish is set and
\* 'session-starting' is dispatched.  The invocation keeps the closure of the
\* render it was called in: the isEnglish and lastAvatarMessageTime state read
\* by startCountdownSequence, and the sessionState read by startAvatar's
\* guard.
StartSessionV2(i, e) ==
  /\ inv[i].pc = "idle"
  /\ \A j \in Avatars : j < i => inv[j].pc # "idle"
  /\ inv' = [inv EXCEPT ![i] = [pc |-> "token", arg |-> e, eng |-> isEnglish,
                                last |-> lastAvatarMessageTime, st |-> sessionState]]
  /\ middleClickTimer' = 0
  /\ isEnglish' = e
  /\ startingLang' = Lang(e)
  /\ Render(HandleSessionStarting(Pres, Lang(e)), e, sessionState)
  /\ timers' = Cleared(timers, middleClickTimer) \cup
                 Added(HandleSessionStarting(Pres, Lang(e)), e, sessionState)
  /\ UNCHANGED <<sessionState, ctxVars, avatarRef, tstate, lastAvatarMessageTime,
                 seqVars, shouldUnmute, video, calls, auxVars, elemVars, endingLang,
                 endingCount, countdownFired, startsSinceInactive,
                 errVars, stopRejected, srcObject, gateVars>>

\* a click on one of the two start buttons (rendered while INACTIVE)
ClickStart(i, e) ==
  /\ sessionState = "inactive"
  /\ StartSessionV2(i, e)
  /\ UNCHANGED isSessionStarting

\* (mutation of CatchError: the catch block dispatches no 'session-error')
CatchErrorSilent(i) ==
  /\ inv' = [inv EXCEPT ![i].pc = "failed"]
  /\ isSessionStarting' = FALSE
  /\ UNCHANGED <<errVars, timers, presVars>>

\* the catch block of startSessionV2, run by invocation i: 'session-error'
\* with the language of the isEnglish argument, after isSessionStarting is
\* reset
CatchError(i) ==
  /\ inv' = [inv EXCEPT ![i].pc = "failed"]
  /\ isSessionStarting' = FALSE
  /\ errorCount' = errorCount + 1
  /\ errorLang' = Lang(inv[i].arg)
  /\ Render(HandleSessionError(Pres), isEnglish, sessionState)
  /\ timers' = timers \cup Added(HandleSessionError(Pres), isEnglish, sessionState)

\* fetchAccessToken throws: the catch block runs
TokenFail(i) ==
  /\ inv[i].pc = "token"
  /\ CatchError(i)
  /\ UNCHANGED <<sessionState, ctxVars, avatarRef, tstate, isEnglish,
                 lastAvatarMessageTime, seqVars, shouldUnmute, video, calls, auxVars, middleClickTimer, elemVars,
                 obsVars, startsSinceInactive,
                 stopRejected, srcObject, gateVars>>

\* the guard of useStreamingAvatarSession.start, on the sessionState of the
\* closure the caller holds
StartGuard(st) == st = "inactive"

\* fetchAccessToken and closeAllActiveSessions have returned (the two awaits
\* write no state): initAvatar(newToken) makes a new transport object, the
\* handlers are registered on it, and startAvatar runs up to
\* 'await createStartAvatar(config)'.  When the guard fails startAvatar throws
\* 'There is already an active session' before it writes anything and the
\* catch block runs.
CleanupDone(i) ==
  /\ inv[i].pc = "token"
  /\ avatarRef' = i
  /\ IF StartGuard(inv[i].st)
       THEN /\ sessionState' = "connecting"
            /\ readyReg' = [readyReg EXCEPT ![i] = TRUE]
            /\ tstate' = [tstate EXCEPT ![i] = "starting"]
            /\ startsSinceInactive' = startsSinceInactive + 1
            /\ inv' = [inv EXCEPT ![i].pc = "starting"]
            /\ Render(SessionEffect(Pres, "connecting"), isEnglish, "connecting")
            /\ timers' = timers \cup
                 Added(SessionEffect(Pres, "connecting"), isEnglish, "connecting")
            /\ UNCHANGED <<errVars, isSessionStarting>>
       ELSE /\ tstate' = [tstate EXCEPT ![i] = "new"]
            /\ CatchError(i)
            /\ UNCHANGED <<sessionState, readyReg, startsSinceInactive,
                 errVars, stopRejected, srcObject, gateVars>>
  /\ UNCHANGED <<stream, isMuted, isVoiceChatActive, pendingStops, teardownCalls,
                 isEnglish, lastAvatarMessageTime, seqVars, shouldUnmute, video, calls, auxVars, middleClickTimer,
                 elemVars, obsVars, stopRejected, srcObject, gateVars>>

\* createStartAvatar resolves; startVoiceChat is awaited next
StartResolve(i) ==
  /\ inv[i].pc = "starting"
  /\ tstate[i] \in {"starting", "live"}
  /\ inv' = [inv EXCEPT ![i].pc = "voicechat"]
  /\ UNCHANGED <<timers, sessionState, ctxVars, avatarRef, tstate, isEnglish,
                 lastAvatarMessageTime, seqVars, shouldUnmute, video, calls, sideVars, presVars,
                 obsVars, startsSinceInactive,
                 errVars, stopRejected, srcObject, gateVars>>

\* createStartAvatar rejects: the catch block runs; the session state stays as
\* startAvatar left it
StartReject(i) ==
  /\ inv[i].pc = "starting"
  /\ tstate[i] \in {"starting", "stopping", "closed"}
  /\ tstate' = [tstate EXCEPT ![i] = IF @ = "starting" THEN "closed" ELSE @]
  /\ CatchError(i)
  /\ UNCHANGED <<sessionState, ctxVars, avatarRef, isEnglish,
                 lastAvatarMessageTime, seqVars, shouldUnmute, video, calls, auxVars, middleClickTimer, elemVars,
                 obsVars, startsSinceInactive,
                 stopRejected, srcObject, gateVars>>

\* startVoiceChat resolves: the voice chat is active and unmuted,
\* isSessionStarting is reset,
\* startMonitoring(mediaStream.current) is called and the 500 ms timer that
\* dispatches 'avatar-start-talking' to AvatarVideo is set
VoiceResolve(i) ==
  /\ inv[i].pc = "voicechat"
  /\ inv' = [inv EXCEPT ![i].pc = "done"]
  /\ isVoiceChatActive' = TRUE
  /\ isMuted' = FALSE
  /\ isSessionStarting' = FALSE
  /\ StartMonitoring(srcObject)
  /\ timers' = timers \cup
       (IF video THEN {Timer("forceTalk", FORCE_STREAMING_MS, 0, "none")} ELSE {})
  /\ UNCHANGED <<sessionState, stream, readyReg, pendingStops, teardownCalls,
                 avatarRef, tstate, isEnglish, lastAvatarMessageTime, seqVars,
                 shouldUnmute, video, calls, auxVars, middleClickTimer, presVars, obsVars, startsSinceInactive,
                 errVars, stopRejected, srcObject>>

\* startVoiceChat rejects: the catch block runs
VoiceReject(i) ==
  /\ inv[i].pc = "voicechat"
  /\ CatchError(i)
  /\ UNCHANGED <<sessionState, ctxVars, avatarRef, tstate, isEnglish,
                 lastAvatarMessageTime, seqVars, shouldUnmute, video, calls, auxVars, middleClickTimer, elemVars,
                 obsVars, startsSinceInactive,
                 stopRejected, srcObject, gateVars>>

\* ------------------------------------------ events of the transport object
\* Transport object a emits events once createStartAvatar was called on it.
\* The handlers InteractiveAvatar registered on a run first, then those of
\* the session hook.

\* STREAM_READY: handleStream sets the stream and the state CONNECTED (while it
\* is registered); InteractiveAvatar's effect on [stream] attaches the stream
\* to the streaming element, which plays once its metadata has loaded
StreamReady(a) ==
  /\ tstate[a] = "starting"
  /\ tstate' = [tstate EXCEPT ![a] = "live"]
  /\ IF readyReg[a]
       THEN /\ stream' = TRUE
            /\ sessionState' = "connected"
            /\ shouldUnmute' = ConnectedEffect("connected")
            /\ LET p == SessionEffect(Pres, "connected")
                   q == [p EXCEPT !.playing = IF video THEN @ \cup {"streaming"} ELSE @]
               IN /\ Render(q, isEnglish, "connected")
                  /\ timers' = timers \cup Added(q, isEnglish, "connected")
            /\ srcObject' = "loading"
            /\ UNCHANGED elemVars
       ELSE UNCHANGED <<stream, sessionState, shouldUnmute, presVars, timers,
                        srcObject>>
  /\ UNCHANGED <<isMuted, isVoiceChatActive, readyReg, pendingStops,
                 teardownCalls, avatarRef, isEnglish, lastAvatarMessageTime,
                 seqVars, inv, video, calls, sideVars, obsVars, startsSinceInactive,
                 errVars, stopRejected, gateVars>>

\* 'loadedmetadata' of the streaming element: startMonitoring(mediaStream.current)
LoadedMetadata ==
  /\ srcObject = "loading"
  /\ srcObject' = "loaded"
  /\ StartMonitoring("loaded")
  /\ UNCHANGED <<timers, sessionState, ctxVars, avatarRef, tstate, isEnglish,
                 lastAvatarMessageTime, seqVars, shouldUnmute, inv, video, calls, sideVars,
                 presVars, obsVars, startsSinceInactive, errVars, stopRejected>>

\* (mutation of AvatarStartTalking: the handler leaves the sequencer's timers
\* and refs alone)
AvatarStartTalkingKeepsTimers(a) ==
  /\ tstate[a] = "live"
  /\ lastAvatarMessageTime' = DateNow
  /\ Render(HandleAvatarStartTalking(Pres), isEnglish, sessionState)
  /\ timers' = timers \cup
       Added(HandleAvatarStartTalking(Pres), isEnglish, sessionState)
  /\ UNCHANGED <<sessionState, ctxVars, avatarRef, tstate, isEnglish, seqVars,
                 shouldUnmute, inv, video, calls, sideVars, elemVars, obsVars,
                 startsSinceInactive,
                 errVars, stopRejected, srcObject, gateVars>>

\* AVATAR_START_TALKING: the timestamp is set, both timers are cleared and
\* 'avatar-start-talking' is dispatched
AvatarStartTalking(a) ==
  /\ tstate[a] = "live"
  /\ lastAvatarMessageTime' = DateNow
  /\ debounceTimerRef' = 0
  /\ countdownTimerRef' = 0
  /\ Render(HandleAvatarStartTalking(Pres), isEnglish, sessionState)
  /\ timers' = ClearedTimers \cup
       Added(HandleAvatarStartTalking(Pres), isEnglish, sessionState)
  /\ UNCHANGED <<sessionState, ctxVars, avatarRef, tstate, isEnglish,
                 shouldUnmute, inv, video, calls, sideVars, elemVars, obsVars,
                 startsSinceInactive,
                 errVars, stopRejected, srcObject, gateVars>>

\* AVATAR_TALKING_MESSAGE: the timestamp is set and both timers are cleared
AvatarTalkingMessage(a) ==
  /\ tstate[a] = "live"
  /\ lastAvatarMessageTime' = DateNow
  /\ debounceTimerRef' = 0
  /\ countdownTimerRef' = 0
  /\ timers' = ClearedTimers
  /\ UNCHANGED <<sessionState, ctxVars, avatarRef, tstate, isEnglish,
                 shouldUnmute, inv, video, calls, sideVars, presVars, obsVars,
                 startsSinceInactive,
                 errVars, stopRejected, srcObject, gateVars>>

\* (mutation of StartCountdownSequence: only the debounce timer is cleared)
StartCountdownSequenceKeepsCountdown(i) ==
  /\ debounceTimerRef' = FreshId(Cleared(timers, debounceTimerRef))
  /\ countdownTimerRef' = countdownTimerRef
  /\ timers' = Cleared(timers, debounceTimerRef) \cup
       {Handle("debounce", DEBOUNCE_MS, i, FreshId(Cleared(timers, debounceTimerRef)))}

\* startCountdownSequence of the render in which invocation i was called:
\* both timers are cleared, then the debounce timer is set
StartCountdownSequence(i) ==
  /\ debounceTimerRef' = FreshId(ClearedTimers)
  /\ countdownTimerRef' = 0
  /\ timers' = ClearedTimers \cup
       {Handle("debounce", DEBOUNCE_MS, i, FreshId(ClearedTimers))}

\* AVATAR_STOP_TALKING: the first one after CONNECTED unmutes the microphone;
\* the timestamp is set and the countdown sequence is started.  The avatar
\* stops talking until as many countdowns as sessions have completed.
AvatarStopTalking(a) ==
  /\ tstate[a] = "live"
  /\ countdownFired < MaxStarts
  /\ shouldUnmute' = FALSE
  /\ isMuted' = IF shouldUnmute /\ avatarRef # 0 THEN FALSE ELSE isMuted
  /\ lastAvatarMessageTime' = DateNow
  /\ StartCountdownSequence(a)
  /\ UNCHANGED <<sessionState, stream, isVoiceChatActive, readyReg,
                 pendingStops, teardownCalls, avatarRef, tstate, isEnglish, inv,
                 video, calls, sideVars, presVars, obsVars, startsSinceInactive,
                 errVars, stopRejected, srcObject, gateVars>>

\* USER_START: both timers are cleared
UserStart(a) ==
  /\ tstate[a] = "live"
  /\ debounceTimerRef' = 0
  /\ countdownTimerRef' = 0
  /\ timers' = ClearedTimers
  /\ UNCHANGED <<sessionState, ctxVars, avatarRef, tstate, isEnglish,
                 lastAvatarMessageTime, shouldUnmute, inv, video, calls, sideVars, presVars,
                 obsVars, startsSinceInactive,
                 errVars, stopRejected, srcObject, gateVars>>

\* STREAM_DISCONNECTED, emitted when the connection is lost and after the
\* transport's stopAvatar().  InteractiveAvatar's handler resets the timestamp
\* and the unmute flag, clears both timers and stops the audio monitor;
\* handleStreamDisconnected then
\* calls stop(), or defers it by 3000 ms when the body attribute
\* data-avatar-talking, which is written outside this repository, is 'true'.
StreamDisconnected(a, talking) ==
  /\ tstate[a] \in {"starting", "live", "stopping"}
  /\ lastAvatarMessageTime' = NoStamp
  /\ shouldUnmute' = FALSE
  /\ debounceTimerRef' = 0
  /\ countdownTimerRef' = 0
  /\ StopMonitoring
  /\ IF talking
       THEN /\ timers' = ClearedTimers \cup
                 {Timer("deferStop", DISCONNECT_GRACE_MS, a, "none")}
            /\ tstate' = [tstate EXCEPT ![a] = "closed"]
            /\ UNCHANGED ctxVars
       ELSE /\ timers' = ClearedTimers
            /\ StopCall([tstate EXCEPT ![a] = "closed"])
  /\ UNCHANGED <<sessionState, avatarRef, isEnglish, inv, video, calls, sideVars, presVars,
                 obsVars, startsSinceInactive,
                 errVars, stopRejected, srcObject>>

\* ------------------------------------------------------- timer callbacks

\* (mutation of FireDebounce: the callback also returns when the timestamp is
\* not reliable)
FireDebounceAbortsUnreliable(t) ==
  /\ Due(t) /\ t.kind = "debounce"
  /\ LET last == inv[t.inv].last
         isReliableTimestamp == last.set /\ last.age > 0
         rest == timers \ {t}
     IN IF ~isReliableTimestamp \/ last.age < RECENT_MS
          THEN /\ timers' = rest
               /\ UNCHANGED seqVars
          ELSE /\ timers' = rest \cup
                    {Handle("countdown", COUNTDOWN_MS, t.inv, FreshId(rest))}
               /\ countdownTimerRef' = FreshId(rest)
               /\ debounceTimerRef' = 0
  /\ UNCHANGED <<sessionState, ctxVars, avatarRef, tstate, isEnglish,
                 lastAvatarMessageTime, shouldUnmute, inv, video, calls, sideVars, presVars,
                 obsVars, startsSinceInactive,
                 errVars, stopRejected, srcObject, gateVars>>

\* (mutation of FireDebounce: the comparison with the 2000 ms window is
\* reversed)
FireDebounceAbortsOld(t) ==
  /\ Due(t) /\ t.kind = "debounce"
  /\ LET last == inv[t.inv].last
         isReliableTimestamp == last.set /\ last.age > 0
         rest == timers \ {t}
     IN IF isReliableTimestamp /\ last.age >= RECENT_MS
          THEN /\ timers' = rest
               /\ UNCHANGED seqVars
          ELSE /\ timers' = rest \cup
                    {Handle("countdown", COUNTDOWN_MS, t.inv, FreshId(rest))}
               /\ countdownTimerRef' = FreshId(rest)
               /\ debounceTimerRef' = 0
  /\ UNCHANGED <<sessionState, ctxVars, avatarRef, tstate, isEnglish,
                 lastAvatarMessageTime, shouldUnmute, inv, video, calls, sideVars, presVars,
                 obsVars, startsSinceInactive,
                 errVars, stopRejected, srcObject, gateVars>>

\* the debounce callback: with a reliable timestamp (positive and in the past)
\* less than 2000 ms old it returns, leaving debounceTimerRef as it is;
\* otherwise it sets the countdown timer.  The timestamp is the one of the
\* closure: timeSinceLastMessage is its age.
FireDebounce(t) ==
  /\ Due(t) /\ t.kind = "debounce"
  /\ LET last == inv[t.inv].last
         isReliableTimestamp == last.set /\ last.age > 0
         rest == timers \ {t}
     IN IF isReliableTimestamp /\ last.age < RECENT_MS
          THEN /\ timers' = rest
               /\ UNCHANGED seqVars
          ELSE /\ timers' = rest \cup
                    {Handle("countdown", COUNTDOWN_MS, t.inv, FreshId(rest))}
               /\ countdownTimerRef' = FreshId(rest)
               /\ debounceTimerRef' = 0
  /\ UNCHANGED <<sessionState, ctxVars, avatarRef, tstate, isEnglish,
                 lastAvatarMessageTime, shouldUnmute, inv, video, calls, sideVars, presVars,
                 obsVars, startsSinceInactive,
                 errVars, stopRejected, srcObject, gateVars>>

\* (mutation of FireCountdown: 'session-ending' is dispatched by the countdown
\* callback itself and stopAvatar() is not called)
FireCountdownEndsAtOnce(t) ==
  /\ Due(t) /\ t.kind = "countdown"
  /\ timers' = timers \ {t}
  /\ countdownTimerRef' = 0
  /\ countdownFired' = countdownFired + 1
  /\ endingLang' = Lang(inv[t.inv].eng)
  /\ endingCount' = endingCount + 1
  /\ UNCHANGED <<sessionState, ctxVars, avatarRef, tstate, isEnglish,
                 lastAvatarMessageTime, debounceTimerRef, shouldUnmute, inv,
                 video, calls, sideVars, presVars, startingLang, startsSinceInactive,
                 errVars, stopRejected, srcObject, gateVars>>

\* the countdown callback: stopAvatar(), then the 100 ms timer that dispatches
\* 'session-ending'
FireCountdown(t) ==
  /\ Due(t) /\ t.kind = "countdown"
  /\ StopCall(tstate)
  /\ timers' = (timers \ {t}) \cup {Timer("ending", ENDING_DELAY_MS, t.inv, "none")}
  /\ countdownTimerRef' = 0
  /\ countdownFired' = countdownFired + 1
  /\ UNCHANGED <<sessionState, avatarRef, isEnglish, lastAvatarMessageTime,
                 debounceTimerRef, shouldUnmute, inv, video, calls, sideVars, presVars,
                 startingLang, endingLang, endingCount,
                 startsSinceInactive,
                 errVars, stopRejected, srcObject, gateVars>>

\* the 100 ms callback: 'session-ending' with the language of the closure
FireEnding(t) ==
  /\ Due(t) /\ t.kind = "ending"
  /\ endingLang' = Lang(inv[t.inv].eng)
  /\ endingCount' = endingCount + 1
  /\ Render(HandleSessionEnding(Pres, Lang(inv[t.inv].eng)), isEnglish, sessionState)
  /\ timers' = (timers \ {t}) \cup
       Added(HandleSessionEnding(Pres, Lang(inv[t.inv].eng)), isEnglish, sessionState)
  /\ UNCHANGED <<sessionState, ctxVars, avatarRef, tstate, isEnglish,
                 lastAvatarMessageTime, seqVars, shouldUnmute, inv, video, calls, sideVars,
                 elemVars, startingLang, countdownFired,
                 startsSinceInactive,
                 errVars, stopRejected, srcObject, gateVars>>

\* (mutation of FireDeferStop: the recheck waits another grace window)
FireDeferStopWaitsAgain(t) ==
  /\ Due(t) /\ t.kind = "deferStop"
  /\ timers' = (timers \ {t}) \cup
       {Timer("deferStop", DISCONNECT_GRACE_MS, t.inv, "again")}
  /\ UNCHANGED <<sessionState, ctxVars, avatarRef, tstate, isEnglish,
                 lastAvatarMessageTime, seqVars, shouldUnmute, inv, video, calls, sideVars,
                 presVars, obsVars, startsSinceInactive, errVars,
                 stopRejected, srcObject, gateVars>>

\* the deferred stop of handleStreamDisconnected: stop() in both branches
FireDeferStop(t) ==
  /\ Due(t) /\ t.kind = "deferStop"
  /\ StopCall(tstate)
  /\ timers' = timers \ {t}
  /\ UNCHANGED <<sessionState, avatarRef, isEnglish, lastAvatarMessageTime,
                 seqVars, shouldUnmute, inv, video, calls, sideVars, presVars, obsVars,
                 startsSinceInactive,
                 errVars, stopRejected, srcObject, gateVars>>

\* the 500 ms callback set after startVoiceChat: 'avatar-start-talking'
FireForceTalk(t) ==
  /\ Due(t) /\ t.kind = "forceTalk"
  /\ Render(HandleAvatarStartTalking(Pres), isEnglish, sessionState)
  /\ timers' = (timers \ {t}) \cup
       Added(HandleAvatarStartTalking(Pres), isEnglish, sessionState)
  /\ UNCHANGED <<sessionState, ctxVars, avatarRef, tstate, isEnglish,
                 lastAvatarMessageTime, seqVars, shouldUnmute, inv, video, calls, sideVars,
                 elemVars, obsVars, startsSinceInactive,
                 errVars, stopRejected, srcObject, gateVars>>

\* ------------------------------------------- AvatarVideo: timer callbacks

\* VideoController.playVideo(target): every element is paused; the ending
\* element is reloaded and played when its data arrived or after 500 ms; any
\* other target is played at once. Callbacks due at the same instant run in
\* the order in which they were set, and handleVideoStateChange sets videoState
\* to the target of the callback it sets: the one for videoState was set last
FirePlay(t) ==
  /\ Due(t) /\ t.kind = "play"
  /\ t.tgt = videoState =>
       ~\E u \in timers : Due(u) /\ u.kind = "play" /\ u.tgt # t.tgt
  /\ IF t.tgt = "ending"
       THEN /\ playing' = {}
            /\ endingLoading' = TRUE
            /\ endingHandler' = "resolve"
            /\ timers' = (timers \ {t}) \cup
                 {Timer("playWait", LOAD_WAIT_MS, 0, "ending")}
       ELSE /\ playing' = {t.tgt}
            /\ timers' = timers \ {t}
            /\ UNCHANGED <<endingLoading, endingHandler>>
  /\ UNCHANGED <<sessionState, ctxVars, avatarRef, tstate, isEnglish,
                 lastAvatarMessageTime, seqVars, shouldUnmute, inv, video, calls, sideVars,
                 videoState, isEndingVideoPlaying, isErrorVideoPlaying,
                 endingLanguage, errorHandler, errorLoading, obsVars,
                 startsSinceInactive,
                 errVars, stopRejected, srcObject, gateVars>>

\* VideoController.playVideo(target) whose play() rejects: every element was
\* paused, false is returned and handleVideoStateChange does not look at it
FirePlayFails(t) ==
  /\ Due(t) /\ t.kind = "play" /\ t.tgt \in {"intro", "error"}
  /\ t.tgt = videoState =>
       ~\E u \in timers : Due(u) /\ u.kind = "play" /\ u.tgt # t.tgt
  /\ playing' = {}
  /\ timers' = timers \ {t}
  /\ UNCHANGED <<sessionState, ctxVars, avatarRef, tstate, isEnglish,
                 lastAvatarMessageTime, seqVars, shouldUnmute, inv, video, calls, sideVars,
                 videoState, isEndingVideoPlaying, isErrorVideoPlaying,
                 endingLanguage, elemVars, obsVars, startsSinceInactive,
                 errVars, stopRejected, srcObject, gateVars>>

\* the 500 ms fallback of playVideo('ending'): play()
FirePlayWait(t) ==
  /\ Due(t) /\ t.kind = "playWait"
  /\ playing' = playing \cup {"ending"}
  /\ timers' = timers \ {t}
  /\ UNCHANGED <<sessionState, ctxVars, avatarRef, tstate, isEnglish,
                 lastAvatarMessageTime, seqVars, shouldUnmute, inv, video, calls, sideVars,
                 videoState, isEndingVideoPlaying, isErrorVideoPlaying,
                 endingLanguage, elemVars, obsVars, startsSinceInactive,
                 errVars, stopRejected, srcObject, gateVars>>

\* element.load() callbacks: the 50 ms reload of the intro element set by
\* 'session-starting' and the 100 ms reload of the intro and ending elements
\* set by the language effect
FireLoad(t) ==
  /\ Due(t) /\ t.kind \in {"loadIntro", "reload"}
  /\ playing' = playing \ (IF t.kind = "reload" THEN {"intro", "ending"} ELSE {"intro"})
  /\ endingLoading' = IF t.kind = "reload" THEN TRUE ELSE endingLoading
  /\ timers' = timers \ {t}
  /\ UNCHANGED <<sessionState, ctxVars, avatarRef, tstate, isEnglish,
                 lastAvatarMessageTime, seqVars, shouldUnmute, inv, video, calls, sideVars,
                 videoState, isEndingVideoPlaying, isErrorVideoPlaying,
                 endingLanguage, endingHandler, errorHandler, errorLoading,
                 obsVars, startsSinceInactive,
                 errVars, stopRejected, srcObject, gateVars>>

\* the 50 ms callback of handleSessionEnding, of the render whose videoState is
\* t.tgt: the ending element is reloaded, onloadeddata and the 200 ms fallback
\* are set
FireEndLoad(t) ==
  /\ Due(t) /\ t.kind = "endLoad"
  /\ playing' = playing \ {"ending"}
  /\ endingLoading' = TRUE
  /\ endingHandler' = t.tgt
  /\ timers' = (timers \ {t}) \cup {Timer("endFallback", FALLBACK_MS, 0, t.tgt)}
  /\ UNCHANGED <<sessionState, ctxVars, avatarRef, tstate, isEnglish,
                 lastAvatarMessageTime, seqVars, shouldUnmute, inv, video, calls, sideVars,
                 videoState, isEndingVideoPlaying, isErrorVideoPlaying,
                 endingLanguage, errorHandler, errorLoading, obsVars,
                 startsSinceInactive,
                 errVars, stopRejected, srcObject, gateVars>>

\* the same for handleSessionError and the error element
FireErrLoad(t) ==
  /\ Due(t) /\ t.kind = "errLoad"
  /\ playing' = playing \ {"error"}
  /\ errorLoading' = TRUE
  /\ errorHandler' = t.tgt
  /\ timers' = (timers \ {t}) \cup {Timer("errFallback", FALLBACK_MS, 0, t.tgt)}
  /\ UNCHANGED <<sessionState, ctxVars, avatarRef, tstate, isEnglish,
                 lastAvatarMessageTime, seqVars, shouldUnmute, inv, video, calls, sideVars,
                 videoState, isEndingVideoPlaying, isErrorVideoPlaying,
                 endingLanguage, endingHandler, endingLoading, obsVars,
                 startsSinceInactive,
                 errVars, stopRejected, srcObject, gateVars>>

\* the 200 ms fallbacks, of the render whose videoState is t.tgt
FireFallback(t) ==
  /\ Due(t) /\ t.kind \in {"endFallback", "errFallback"}
  /\ LET target == IF t.kind = "endFallback" THEN "ending" ELSE "error"
         p == HandleVideoStateChange(Pres, t.tgt, target)
     IN /\ Render(p, isEnglish, sessionState)
        /\ timers' = (timers \ {t}) \cup Added(p, isEnglish, sessionState)
  /\ UNCHANGED <<sessionState, ctxVars, avatarRef, tstate, isEnglish,
                 lastAvatarMessageTime, seqVars, shouldUnmute, inv, video, calls, sideVars,
                 elemVars, obsVars, startsSinceInactive,
                 errVars, stopRejected, srcObject, gateVars>>

\* ------------------------------------- AvatarVideo: media element events

\* 'loadeddata' of the ending element: onloadeddata is either the handler set
\* by handleSessionEnding (handleVideoStateChange('ending') of the render whose
\* videoState is endingHandler) or the resolve of playVideo, which plays
EndingLoadedData ==
  /\ endingLoading
  /\ endingLoading' = FALSE
  /\ IF endingHandler = "resolve"
       THEN /\ \E t \in timers : t.kind = "playWait"
            /\ timers' = {t \in timers : t.kind # "playWait"}
            /\ playing' = playing \cup {"ending"}
            /\ UNCHANGED <<videoState, isEndingVideoPlaying, isErrorVideoPlaying,
                           endingLanguage>>
       ELSE /\ endingHandler # "none"
            /\ LET p == HandleVideoStateChange(Pres, endingHandler, "ending")
               IN /\ Render(p, isEnglish, sessionState)
                  /\ timers' = timers \cup Added(p, isEnglish, sessionState)
  /\ UNCHANGED <<sessionState, ctxVars, avatarRef, tstate, isEnglish,
                 lastAvatarMessageTime, seqVars, shouldUnmute, inv, video, calls, sideVars,
                 endingHandler, errorHandler, errorLoading, obsVars,
                 startsSinceInactive,
                 errVars, stopRejected, srcObject, gateVars>>

\* 'loadeddata' of the error element
ErrorLoadedData ==
  /\ errorLoading
  /\ errorLoading' = FALSE
  /\ errorHandler # "none"
  /\ LET p == HandleVideoStateChange(Pres, errorHandler, "error")
     IN /\ Render(p, isEnglish, sessionState)
        /\ timers' = timers \cup Added(p, isEnglish, sessionState)
  /\ UNCHANGED <<sessionState, ctxVars, avatarRef, tstate, isEnglish,
                 lastAvatarMessageTime, seqVars, shouldUnmute, inv, video, calls, sideVars,
                 endingHandler, endingLoading, errorHandler, obsVars,
                 startsSinceInactive,
                 errVars, stopRejected, srcObject, gateVars>>

\* (mutation of IntroEnded: the handler does nothing while CONNECTING)
IntroEndedWhileConnected ==
  /\ "intro" \in playing
  /\ LET p0 == [Pres EXCEPT !.playing = @ \ {"intro"}]
         p == IF sessionState = "connected" /\ videoState = "intro"
                THEN HandleVideoStateChange(p0, videoState, "loop")
                ELSE p0
     IN /\ Render(p, isEnglish, sessionState)
        /\ timers' = timers \cup Added(p, isEnglish, sessionState)
  /\ UNCHANGED <<sessionState, ctxVars, avatarRef, tstate, isEnglish,
                 lastAvatarMessageTime, seqVars, shouldUnmute, inv, video, calls, sideVars,
                 elemVars, obsVars, startsSinceInactive,
                 errVars, stopRejected, srcObject, gateVars>>

\* 'ended' of the intro element: handleIntroEnded
IntroEnded ==
  /\ "intro" \in playing
  /\ LET p0 == [Pres EXCEPT !.playing = @ \ {"intro"}]
         p == IF (sessionState = "connected" /\ videoState = "intro")
                   \/ sessionState = "connecting"
                THEN HandleVideoStateChange(p0, videoState, "loop")
                ELSE p0
     IN /\ Render(p, isEnglish, sessionState)
        /\ timers' = timers \cup Added(p, isEnglish, sessionState)
  /\ UNCHANGED <<sessionState, ctxVars, avatarRef, tstate, isEnglish,
                 lastAvatarMessageTime, seqVars, shouldUnmute, inv, video, calls, sideVars,
                 elemVars, obsVars, startsSinceInactive,
                 errVars, stopRejected, srcObject, gateVars>>

\* (mutation of ClipEnded: the flag is reset and the state is kept)
ClipEndedStays(c) ==
  /\ c \in playing
  /\ LET p == [Pres EXCEPT !.playing = @ \ {c},
                           !.endp = IF c = "ending" THEN FALSE ELSE @,
                           !.errp = IF c = "error" THEN FALSE ELSE @]
     IN /\ Render(p, isEnglish, sessionState)
        /\ timers' = timers \cup Added(p, isEnglish, sessionState)
  /\ UNCHANGED <<sessionState, ctxVars, avatarRef, tstate, isEnglish,
                 lastAvatarMessageTime, seqVars, shouldUnmute, inv, video, calls, sideVars,
                 elemVars, obsVars, startsSinceInactive,
                 errVars, stopRejected, srcObject, gateVars>>

\* 'ended' of the ending element (handleEndingEnded) or of the error element
\* (handleErrorEnded)
ClipEnded(c) ==
  /\ c \in playing
  /\ LET p0 == [Pres EXCEPT !.playing = @ \ {c},
                            !.endp = IF c = "ending" THEN FALSE ELSE @,
                            !.errp = IF c = "error" THEN FALSE ELSE @]
         p == HandleVideoStateChange(p0, videoState, "loop")
     IN /\ Render(p, isEnglish, sessionState)
        /\ timers' = timers \cup Added(p, isEnglish, sessionState)
  /\ UNCHANGED <<sessionState, ctxVars, avatarRef, tstate, isEnglish,
                 lastAvatarMessageTime, seqVars, shouldUnmute, inv, video, calls, sideVars,
                 elemVars, obsVars, startsSinceInactive,
                 errVars, stopRejected, srcObject, gateVars>>

\* ----------------------------- the older VideoController (two-phase switch)

\* the rest of playVideo(tgt) once stopAllVideos has resolved, pl being the
\* elements that play and cs the other suspended calls: the ending element is
\* reloaded, which discards its pending 'pause' event, and played when its data
\* arrived or after 500 ms; any other target is played at once
ResumePlay(tgt, pl, cs) ==
  IF tgt = "ending"
    THEN /\ playing' = pl \ {"ending"}
         /\ calls' = {[c EXCEPT !.waits = @ \ {"ending"},
                                !.lost = @ \cup (c.waits \cap {"ending"})] : c \in cs}
         /\ endingLoading' = TRUE
         /\ endingHandler' = "resolve"
         /\ timers' = timers \cup {Timer("playWait", LOAD_WAIT_MS, 0, "ending")}
    ELSE /\ playing' = pl \cup {tgt}
         /\ calls' = cs
         /\ UNCHANGED <<timers, endingLoading, endingHandler>>

\* VideoController.playVideo(tgt) of the older controller, up to its first
\* await that does not resolve at once: stopAllVideos pauses and rewinds
\* every element that plays, sets its onpause, which replaces the handler of
\* a call that still waited for that element, and awaits the 'pause' events
PlayVideo(tgt) ==
  /\ Cardinality(calls) < MaxCalls
  /\ IF playing = {}
       THEN ResumePlay(tgt, {}, calls)
       ELSE /\ playing' = {}
            /\ calls' = {[c EXCEPT !.waits = @ \ playing,
                                   !.lost = @ \cup (c.waits \cap playing)] : c \in calls}
                         \cup {[tgt |-> tgt, waits |-> playing, lost |-> {}, age |-> 0]}
            /\ UNCHANGED <<timers, endingLoading, endingHandler>>
  /\ UNCHANGED <<sessionState, ctxVars, avatarRef, tstate, isEnglish,
                 lastAvatarMessageTime, seqVars, shouldUnmute, inv, video, sideVars,
                 videoState, isEndingVideoPlaying, isErrorVideoPlaying,
                 endingLanguage, errorHandler, errorLoading, obsVars,
                 startsSinceInactive, errVars, stopRejected, srcObject, gateVars>>

\* the 'pause' event of element el: the call whose handler is in onpause
\* goes on when it was the last one it awaited
PauseEvent(el) ==
  /\ \E c \in calls : el \in c.waits
  /\ LET c == CHOOSE x \in calls : el \in x.waits
         d == [c EXCEPT !.waits = @ \ {el}]
     IN IF d.waits = {} /\ d.lost = {}
          THEN ResumePlay(c.tgt, playing, calls \ {c})
          ELSE /\ calls' = (calls \ {c}) \cup {d}
               /\ UNCHANGED <<playing, timers, endingLoading, endingHandler>>
  /\ UNCHANGED <<sessionState, ctxVars, avatarRef, tstate, isEnglish,
                 lastAvatarMessageTime, seqVars, shouldUnmute, inv, video, sideVars,
                 videoState, isEndingVideoPlaying, isErrorVideoPlaying,
                 endingLanguage, errorHandler, errorLoading, obsVars,
                 startsSinceInactive, errVars, stopRejected, srcObject, gateVars>>

\* ------------------------------------------------------------------ time

\* time passes, by TickMs or up to the next deadline when that is nearer; a
\* timer that is due fires before time passes
Tick ==
  /\ \A t \in timers : t.left > 0
  /\ LET d == Min({TickMs} \cup {t.left : t \in timers})
     IN /\ timers' = {[t EXCEPT !.left = @ - d] : t \in timers}
        /\ lastAvatarMessageTime' = Older(lastAvatarMessageTime, d)
        /\ inv' = [i \in Avatars |-> [inv[i] EXCEPT !.last = Older(@, d)]]
        /\ calls' = {[c EXCEPT !.age = IF @ + d > AgeCap THEN AgeCap ELSE @ + d] :
                       c \in calls}
  /\ UNCHANGED <<sessionState, ctxVars, avatarRef, tstate, isEnglish, seqVars,
                 shouldUnmute, video, sideVars, presVars, obsVars, startsSinceInactive,
                 errVars, stopRejected, srcObject, gateVars>>

FireTimer ==
  \E t \in timers :
    \/ FireDebounce(t)
    \/ FireCountdown(t)
    \/ FireEnding(t)

FireVideoTimer ==
  \E t \in timers :
    \/ FireDeferStop(t)
    \/ FireForceTalk(t)
    \/ FirePlay(t)
    \/ FirePlayWait(t)
    \/ FireLoad(t)
    \/ FireEndLoad(t)
    \/ FireFallback(t)

\* the session hook and the sequencer while every awaited call succeeds
Next ==
  \/ \E i \in Avatars, e \in BOOLEAN : ClickStart(i, e)
  \/ \E i \in Avatars : CleanupDone(i)
  \/ \E i \in Avatars : StartResolve(i)
  \/ \E i \in Avatars : VoiceResolve(i)
  \/ \E a \in Avatars : StreamReady(a)
  \/ LoadedMetadata
  \/ \E a \in Avatars : AvatarStartTalking(a)
  \/ \E a \in Avatars : AvatarTalkingMessage(a)
  \/ \E a \in Avatars : AvatarStopTalking(a)
  \/ \E a \in Avatars : UserStart(a)
  \/ \E a \in Avatars : StreamDisconnected(a, FALSE)
  \/ ManualStop
  \/ StopResolve
  \/ FireTimer
  \/ Tick

\* the same with the deferred disconnect and AvatarVideo
NextVideo ==
  \/ Next
  \/ \E a \in Avatars : StreamDisconnected(a, TRUE)
  \/ FireVideoTimer
  \/ EndingLoadedData
  \/ IntroEnded
  \/ ClipEnded("ending")

\* the same with the failures of the awaited calls and the error clip
NextFailures ==
  \/ NextVideo
  \/ \E i \in Avatars : TokenFail(i)
  \/ \E i \in Avatars : StartReject(i)
  \/ \E i \in Avatars : VoiceReject(i)
  \/ \E t \in timers : FireErrLoad(t)
  \/ ErrorLoadedData
  \/ ClipEnded("error")

\* the timers of a start that fails, with AvatarVideo
FireErrorTimer ==
  \E t \in timers :
    \/ FireForceTalk(t)
    \/ FirePlay(t)
    \/ FireLoad(t)
    \/ FireErrLoad(t)
    \/ FireFallback(t)

\* a start that may fail, with AvatarVideo, up to the avatar's first words:
\* the avatar does not stop talking, so no countdown begins
NextVideoFail ==
  \/ \E i \in Avatars, e \in BOOLEAN : ClickStart(i, e)
  \/ \E i \in Avatars : CleanupDone(i)
  \/ \E i \in Avatars : StartResolve(i)
  \/ \E i \in Avatars : VoiceResolve(i)
  \/ \E i \in Avatars : TokenFail(i)
  \/ \E i \in Avatars : StartReject(i)
  \/ \E i \in Avatars : VoiceReject(i)
  \/ \E a \in Avatars : StreamReady(a)
  \/ LoadedMetadata
  \/ \E a \in Avatars : AvatarStartTalking(a)
  \/ \E a \in Avatars : StreamDisconnected(a, FALSE)
  \/ ManualStop
  \/ StopResolve
  \/ FireErrorTimer
  \/ ErrorLoadedData
  \/ IntroEnded
  \/ ClipEnded("error")
  \/ Tick

\* a start that may fail, with clips whose play() may reject
NextPlayFail ==
  \/ NextVideoFail
  \/ \E t \in timers : FirePlayFails(t)

\* the older VideoController, called for any clip at any time
NextSwitch ==
  \/ \E tgt \in Clips : PlayVideo(tgt)
  \/ \E el \in Clips : PauseEvent(el)
  \/ EndingLoadedData
  \/ \E t \in timers : FirePlayWait(t)
  \/ Tick

\* the same and the countdown after the avatar's words, up to the end of the
\* ending clip: both clips that lead back to the loop
NextTerminal ==
  \/ NextVideoFail
  \/ \E a \in Avatars : AvatarStopTalking(a)
  \/ FireTimer
  \/ \E t \in timers : FirePlayWait(t) \/ FireEndLoad(t)
  \/ EndingLoadedData
  \/ ClipEnded("ending")

\* the session hook and the sequencer with the failures of the calls awaited
\* by startSessionV2
NextStartFail ==
  \/ Next
  \/ \E i \in Avatars : TokenFail(i)
  \/ \E i \in Avatars : StartReject(i)
  \/ \E i \in Avatars : VoiceReject(i)

\* the same with the failure of the call awaited by stop()
NextFail ==
  \/ NextStartFail
  \/ StopReject

\* the audio monitor used on its own: the element passed to startMonitoring
\* has a stream or none
NextGate ==
  \/ \E el \in Elements : CallStartMonitoring(el)
  \/ CallStopMonitoring
  \/ \E volume \in Volumes, d \in Gaps : ProcessVolumeLevel(volume, d)

\* sessions one after the other
Spec == Init /\ [][Next]_vars

\* a click on a start button while the invocation before it is in flight
SpecOverlap == InitOverlap /\ [][Next]_vars

\* one session, with AvatarVideo
SpecVideo == InitVideo /\ [][NextVideo]_vars

\* sessions one after the other, with the failures
SpecFail == Init /\ [][NextFail]_vars

\* the audio monitor, sampled with jitter
SpecGate == Init /\ [][NextGate]_vars

\* the audio monitor, sampled at exactly the check interval
SpecSeries == InitSeries /\ [][NextGate]_vars

\* one start that may fail, with AvatarVideo
SpecVideoFail == InitVideo /\ [][NextVideoFail]_vars

\* one session that may fail to start or end by its countdown, with AvatarVideo
SpecTerminal == InitVideo /\ [][NextTerminal]_vars

\* one start that may fail, with AvatarVideo and clips that may fail to play
SpecPlayFail == InitVideo /\ [][NextPlayFail]_vars

\* the switches of the older VideoController
SpecSwitch == Init /\ [][NextSwitch]_vars

\* one session, with AvatarVideo and the failures
SpecFailures == InitVideo /\ [][NextFailures]_vars


\* the steps the program takes by itself: every call awaited by startSessionV2
\* settles, one way or the other, stopAvatar() resolves and a timer that is
\* due fires
Settles ==
  \/ \E i \in Avatars : CleanupDone(i) \/ TokenFail(i)
  \/ \E i \in Avatars : StartResolve(i) \/ StartReject(i)
  \/ \E i \in Avatars : VoiceResolve(i) \/ VoiceReject(i)
  \/ StopResolve
  \/ FireTimer

\* failing starts when time passes and no awaited call or due timer is held
\* back for ever; the clicks and the transport's events may or may not come
SpecFailFair ==
  Init /\ [][NextStartFail]_vars /\ WF_vars(Settles) /\ WF_vars(Tick)

\* ------------------------------------------------- closeAllActiveSessions

\* the wait after the close requests and the wait after the force-close
\* requests
CLOSE_WAIT_MS == 2000
HARDCLOSE_WAIT_MS == 3000

\* startSessionV2 calls closeAllActiveSessions once fetchAccessToken has
\* returned: listActiveSessions is awaited first
CleanupBegin(i) ==
  /\ inv[i].pc = "token"
  /\ cleanup.pc = "idle"
  /\ cleanup' = [cleanup EXCEPT !.pc = "list"]
  /\ UNCHANGED <<timers, sessionState, ctxVars, avatarRef, tstate, isEnglish,
                 lastAvatarMessageTime, seqVars, shouldUnmute, inv, video, calls, midVars, route, logger, loopVideoRef,
                 presVars, obsVars, startsSinceInactive, errVars, stopRejected,
                 srcObject, gateVars>>

\* what listActiveSessions returns: the sessions S of the response, and the
\* empty list when the request fails (the error is caught and logged)
Listed(S, ok) == IF ok THEN S ELSE {}

\* (mutation of ListReturns: the force-close loop runs over the sessions of
\* the first list)
ListReturnsFirstList(S, ok) ==
  /\ cleanup.pc \in {"list", "relist", "final"}
  /\ LET L == Listed(S, ok)
         f == IF ok THEN cleanup.failed ELSE cleanup.failed \cup {"list"}
     IN cleanup' =
          IF cleanup.pc = "list"
            THEN IF L = {}
                   THEN [cleanup EXCEPT !.pc = "returned", !.failed = f]
                   ELSE [cleanup EXCEPT !.pc = "close", !.listed = L,
                                        !.toClose = L, !.failed = f]
          ELSE IF cleanup.pc = "relist"
            THEN [cleanup EXCEPT !.pc = "hard", !.relisted = L,
                                 !.toHard = cleanup.listed, !.failed = f]
          ELSE [cleanup EXCEPT !.pc = "returned", !.failed = f]
  /\ UNCHANGED <<timers, sessionState, ctxVars, avatarRef, tstate, isEnglish,
                 lastAvatarMessageTime, seqVars, shouldUnmute, inv, video, calls, midVars, route, logger, loopVideoRef,
                 presVars, obsVars, startsSinceInactive, errVars, stopRejected,
                 srcObject, gateVars>>

\* listActiveSessions returns to closeAllActiveSessions.  The first list:
\* nothing more is done when it is empty, else the close loop starts.  The
\* list after the wait: cleanup is complete when it is empty, else the
\* force-close loop starts over the sessions it holds.  The final list is
\* only logged.
ListReturns(S, ok) ==
  /\ cleanup.pc \in {"list", "relist", "final"}
  /\ LET L == Listed(S, ok)
         f == IF ok THEN cleanup.failed ELSE cleanup.failed \cup {"list"}
     IN cleanup' =
          IF cleanup.pc = "list"
            THEN IF L = {}
                   THEN [cleanup EXCEPT !.pc = "returned", !.failed = f]
                   ELSE [cleanup EXCEPT !.pc = "close", !.listed = L,
                                        !.toClose = L, !.failed = f]
          ELSE IF cleanup.pc = "relist"
            THEN IF L = {}
                   THEN [cleanup EXCEPT !.pc = "returned", !.relisted = L,
                                        !.failed = f]
                   ELSE [cleanup EXCEPT !.pc = "hard", !.relisted = L,
                                        !.toHard = L, !.failed = f]
          ELSE [cleanup EXCEPT !.pc = "returned", !.failed = f]
  /\ UNCHANGED <<timers, sessionState, ctxVars, avatarRef, tstate, isEnglish,
                 lastAvatarMessageTime, seqVars, shouldUnmute, inv, video, calls, midVars, route, logger, loopVideoRef,
                 presVars, obsVars, startsSinceInactive, errVars, stopRejected,
                 srcObject, gateVars>>

\* one round of the close loop: closeSession(s) is called for a listed
\* session and returns or throws; a failure is caught in the loop.  After the
\* last session the 2000 ms wait starts.
CloseReturns(s, ok) ==
  /\ cleanup.pc = "close"
  /\ s \in cleanup.toClose
  /\ LET rest == cleanup.toClose \ {s}
         c == [cleanup EXCEPT !.closes[s] = @ + 1, !.toClose = rest,
                              !.failed = IF ok THEN @ ELSE @ \cup {"close"}]
     IN IF rest = {}
          THEN /\ cleanup' = [c EXCEPT !.pc = "closeWait"]
               /\ timers' = timers \cup {Timer("closeWait", CLOSE_WAIT_MS, 0, "none")}
          ELSE /\ cleanup' = c
               /\ UNCHANGED timers
  /\ UNCHANGED <<sessionState, ctxVars, avatarRef, tstate, isEnglish,
                 lastAvatarMessageTime, seqVars, shouldUnmute, inv, video, calls, midVars, route, logger, loopVideoRef,
                 presVars, obsVars, startsSinceInactive, errVars, stopRejected,
                 srcObject, gateVars>>

\* one round of the force-close loop: hardCloseSession(s) is called for a
\* session of the second list and returns or throws; a failure is caught in
\* the loop.  After the last session the 3000 ms wait starts.
HardCloseReturns(s, ok) ==
  /\ cleanup.pc = "hard"
  /\ s \in cleanup.toHard
  /\ LET rest == cleanup.toHard \ {s}
         c == [cleanup EXCEPT !.hard[s] = @ + 1, !.toHard = rest,
                              !.failed = IF ok THEN @ ELSE @ \cup {"hardclose"}]
     IN IF rest = {}
          THEN /\ cleanup' = [c EXCEPT !.pc = "hardWait"]
               /\ timers' = timers \cup
                    {Timer("hardWait", HARDCLOSE_WAIT_MS, 0, "none")}
          ELSE /\ cleanup' = c
               /\ UNCHANGED timers
  /\ UNCHANGED <<sessionState, ctxVars, avatarRef, tstate, isEnglish,
                 lastAvatarMessageTime, seqVars, shouldUnmute, inv, video, calls, midVars, route, logger, loopVideoRef,
                 presVars, obsVars, startsSinceInactive, errVars, stopRejected,
                 srcObject, gateVars>>

\* a wait of closeAllActiveSessions is over: the sessions are listed again
FireCleanupWait(t) ==
  /\ Due(t) /\ t.kind \in {"closeWait", "hardWait"}
  /\ timers' = timers \ {t}
  /\ cleanup' = [cleanup EXCEPT !.pc = IF t.kind = "closeWait" THEN "relist"
                                                               ELSE "final"]
  /\ UNCHANGED <<sessionState, ctxVars, avatarRef, tstate, isEnglish,
                 lastAvatarMessageTime, seqVars, shouldUnmute, inv, video, calls, midVars, route, logger, loopVideoRef,
                 presVars, obsVars, startsSinceInactive, errVars, stopRejected,
                 srcObject, gateVars>>

\* closeAllActiveSessions has returned to startSessionV2, which goes on with
\* initAvatar and startAvatar
StartAfterCleanup(i) ==
  /\ cleanup.pc = "returned"
  /\ CleanupDone(i)

\* one step of closeAllActiveSessions
CleanupStep ==
  \/ \E S \in SUBSET Sessions, ok \in BOOLEAN : ListReturns(S, ok)
  \/ \E s \in Sessions, ok \in BOOLEAN : CloseReturns(s, ok)
  \/ \E s \in Sessions, ok \in BOOLEAN : HardCloseReturns(s, ok)
  \/ \E t \in timers : FireCleanupWait(t)

\* a start with the remote cleanup in full, every remote call succeeding or
\* failing
NextCleanup ==
  \/ \E i \in Avatars, e \in BOOLEAN : ClickStart(i, e)
  \/ \E i \in Avatars : CleanupBegin(i)
  \/ CleanupStep
  \/ \E i \in Avatars : StartAfterCleanup(i)
  \/ Tick

SpecCleanup == Init /\ [][NextCleanup]_vars

\* ------------------------------ closeAllActiveSessions, the earlier variant

\* one round of the loop of the earlier closeAllActiveSessions(token):
\* closeSession(token, s) is awaited with no catch in the loop, so a failure
\* leaves the loop and is rethrown by the function's catch block; after the
\* last session the function returns
CloseReturnsEarlier(s, ok) ==
  /\ cleanup.pc = "close"
  /\ s \in cleanup.toClose
  /\ LET rest == cleanup.toClose \ {s}
         c == [cleanup EXCEPT !.closes[s] = @ + 1, !.toClose = rest]
     IN cleanup' =
          IF ~ok THEN [c EXCEPT !.pc = "threw", !.failed = @ \cup {"close"}]
          ELSE IF rest = {} THEN [c EXCEPT !.pc = "returned"]
          ELSE c
  /\ UNCHANGED <<timers, sessionState, ctxVars, avatarRef, tstate, isEnglish,
                 lastAvatarMessageTime, seqVars, shouldUnmute, inv, video, calls, midVars, route, logger, loopVideoRef,
                 presVars, obsVars, startsSinceInactive, errVars, stopRejected,
                 srcObject, gateVars>>

\* closeAllActiveSessions has thrown: the catch block of startSessionV2 runs
CleanupThrows(i) ==
  /\ cleanup.pc = "threw"
  /\ inv[i].pc = "token"
  /\ CatchError(i)
  /\ UNCHANGED <<sessionState, ctxVars, avatarRef, tstate, isEnglish,
                 lastAvatarMessageTime, seqVars, shouldUnmute, video, calls, auxVars, middleClickTimer,
                 elemVars, obsVars, startsSinceInactive, stopRejected, srcObject,
                 gateVars>>

\* a start with the cleanup of the earlier variant, up to the avatar's first
\* speech
NextCleanupEarlier ==
  \/ \E i \in Avatars, e \in BOOLEAN : ClickStart(i, e)
  \/ \E i \in Avatars : CleanupBegin(i)
  \/ \E S \in SUBSET Sessions, ok \in BOOLEAN : ListReturns(S, ok)
  \/ \E s \in Sessions, ok \in BOOLEAN : CloseReturnsEarlier(s, ok)
  \/ \E i \in Avatars : StartAfterCleanup(i)
  \/ \E i \in Avatars : CleanupThrows(i)
  \/ \E i \in Avatars : StartResolve(i)
  \/ \E i \in Avatars : VoiceResolve(i)
  \/ \E a \in Avatars : StreamReady(a)
  \/ \E a \in Avatars : AvatarStartTalking(a)
  \/ Tick

SpecCleanupEarlier == Init /\ [][NextCleanupEarlier]_vars

\* -------------------------------------------- POST /api/hardclose-session

maxRetries == 3
\* the unit of the wait before the retry of an attempt, and of the wait after
\* an attempt that threw
RETRY_WAIT_MS == 1000
CATCH_WAIT_MS == 2000

\* the outcomes of a request to the upstream stop endpoint: a 2xx response, a
\* response of another status, and a fetch that throws
Upstream == {"ok", "bad", "throw"}

\* the requests the endpoint may get: a well-formed one, one whose body is no
\* JSON, one with no session id, and one met with no API key configured
Posts == {"valid", "nojson", "noid", "nokey"}

RouteFrame ==
  UNCHANGED <<timers, sessionState, ctxVars, avatarRef, tstate, isEnglish,
              lastAvatarMessageTime, seqVars, shouldUnmute, inv, video, calls, midVars,
              cleanup, logger, loopVideoRef, presVars, obsVars, startsSinceInactive, errVars,
              stopRejected, srcObject, gateVars>>

\* the loop goes on to the next attempt, or ends after the last one with the
\* 207 response
NextAttempt(r) ==
  IF r.attempt < maxRetries
    THEN [r EXCEPT !.pc = "fetch", !.attempt = @ + 1,
                   !.waits = Append(@, r.waited), !.waited = 0]
    ELSE [r EXCEPT !.pc = "done", !.status = 207]

\* the catch block of an attempt: the wait of 2000 * attempt ms before the
\* next attempt, if there is one
CatchAttempt(r) ==
  NextAttempt(IF r.attempt < maxRetries
                THEN [r EXCEPT !.lastError = "throw",
                               !.waited = @ + CATCH_WAIT_MS * r.attempt]
                ELSE [r EXCEPT !.lastError = "throw"])

\* the handler is called for session s: the responses 401, 500 (request.json() throws, the
\* outer catch block) and 400 are returned before the loop; else the first
\* attempt starts
RoutePost(p, s) ==
  /\ route.pc = "idle"
  /\ route' = IF p = "nokey" THEN [route EXCEPT !.pc = "done", !.status = 401]
              ELSE IF p = "nojson" THEN [route EXCEPT !.pc = "done", !.status = 500]
              ELSE IF p = "noid" THEN [route EXCEPT !.pc = "done", !.status = 400]
              ELSE [route EXCEPT !.pc = "fetch", !.session_id = s, !.attempt = 1]
  /\ RouteFrame

\* the first request of an attempt returns.  2xx: the response is returned.
\* Another status: before the last attempt the handler waits 1000 * attempt
\* ms and sends the request again; in the last attempt the loop ends.  A
\* throw: the catch block.
RouteFetch(o) ==
  /\ route.pc = "fetch"
  /\ LET r == [route EXCEPT !.sent = @ + 1]
     IN route' =
          IF o = "ok" THEN [r EXCEPT !.pc = "done", !.status = 200]
          ELSE IF o = "throw" THEN CatchAttempt(r)
          ELSE IF r.attempt < maxRetries
            THEN [r EXCEPT !.pc = "retry", !.waited = @ + RETRY_WAIT_MS * r.attempt]
          ELSE NextAttempt([r EXCEPT !.lastError = "bad"])
  /\ RouteFrame

\* the second request of an attempt returns.  2xx: the response is returned.
\* Another status: the next attempt follows at once.  A throw (the abort
\* after 10 s included): the catch block.
RouteRetry(o) ==
  /\ route.pc = "retry"
  /\ LET r == [route EXCEPT !.sent = @ + 1]
     IN route' =
          IF o = "ok" THEN [r EXCEPT !.pc = "done", !.status = 200]
          ELSE IF o = "throw" THEN CatchAttempt(r)
          ELSE NextAttempt([r EXCEPT !.lastError = "bad"])
  /\ RouteFrame

\* the handler has returned; the endpoint serves the next request
RouteReturn ==
  /\ route.pc = "done"
  /\ route' = NoRoute
  /\ RouteFrame

NextRoute ==
  \/ \E p \in Posts, s \in Sessions : RoutePost(p, s)
  \/ \E o \in Upstream : RouteFetch(o)
  \/ \E o \in Upstream : RouteRetry(o)
  \/ RouteReturn

SpecRoute == Init /\ [][NextRoute]_vars

\* ------------------------------------------------------------ SmartLogger

maxBufferSize == 100

LoggerFrame ==
  UNCHANGED <<timers, sessionState, ctxVars, avatarRef, tstate, isEnglish,
              lastAvatarMessageTime, seqVars, shouldUnmute, inv, video, calls, midVars,
              cleanup, route, loopVideoRef, presVars, obsVars, startsSinceInactive, errVars,
              stopRejected, srcObject, gateVars>>

\* the levels NEXT_PUBLIC_LOG_LEVEL and NODE_ENV can configure
LogLevels == {LogLevel.ERROR, LogLevel.WARN, LogLevel.INFO, LogLevel.DEBUG,
              LogLevel.TRACE}

\* getInstance() makes the instance: the constructor sets logLevel
GetInstance(l) ==
  /\ ~logger.made
  /\ logger' = [logger EXCEPT !.made = TRUE, !.logLevel = l]
  /\ LoggerFrame

shouldLog(lg, level) == level <= lg.logLevel

\* (mutation of addToBuffer: no shift when the buffer is full)
addToBufferNoShift(lg) ==
  [lg EXCEPT !.logBuffer = Append(@, lg.pushed + 1), !.pushed = @ + 1]

\* addToBuffer: the oldest entry is shifted out of a full buffer, then the
\* new entry is pushed
addToBuffer(lg) ==
  LET kept == IF Len(lg.logBuffer) >= maxBufferSize THEN Tail(lg.logBuffer)
                                                   ELSE lg.logBuffer
  IN [lg EXCEPT !.logBuffer = Append(kept, lg.pushed + 1), !.pushed = @ + 1]

\* how logger.debug(...) ends: with the DEBUG level disabled it returns at
\* once; with it enabled its first statement is logger.debug(...) again, on
\* the same instance, and the recursion ends in the engine's RangeError
\* (maximum call stack size exceeded) before addToBuffer is reached
DebugEnds(lg) == IF shouldLog(lg, LogLevel.DEBUG) THEN "threw" ELSE "returned"

\* a method that writes with console.error or console.warn
ViaConsole(name, level) ==
  /\ logger.made
  /\ logger.pushed < MaxLogs
  /\ logger' = IF shouldLog(logger, level)
                 THEN [addToBuffer(logger) EXCEPT !.last = <<name, "returned">>]
                 ELSE [logger EXCEPT !.last = <<name, "returned">>]
  /\ LoggerFrame

\* a method that writes with logger.debug: the error of that call leaves the
\* method before its addToBuffer
ViaDebug(name, level) ==
  /\ logger.made
  /\ logger.pushed < MaxLogs
  /\ logger' = IF ~shouldLog(logger, level)
                 THEN [logger EXCEPT !.last = <<name, "returned">>]
               ELSE IF DebugEnds(logger) = "threw"
                 THEN [logger EXCEPT !.last = <<name, "threw">>]
               ELSE [addToBuffer(logger) EXCEPT !.last = <<name, "returned">>]
  /\ LoggerFrame

LogError == ViaConsole("error", LogLevel.ERROR)
LogWarn == ViaConsole("warn", LogLevel.WARN)
LogInfo == ViaDebug("info", LogLevel.INFO)
LogDebug == ViaDebug("debug", LogLevel.DEBUG)
LogTrace == ViaDebug("trace", LogLevel.TRACE)

\* the level of a method
LevelOf(name) ==
  CASE name = "error" -> LogLevel.ERROR
    [] name = "warn" -> LogLevel.WARN
    [] name = "info" -> LogLevel.INFO
    [] name = "debug" -> LogLevel.DEBUG
    [] name = "trace" -> LogLevel.TRACE

NextLogger ==
  \/ \E l \in LogLevels : GetInstance(l)
  \/ LogError
  \/ LogWarn
  \/ LogInfo
  \/ LogDebug
  \/ LogTrace

SpecLogger == Init /\ [][NextLogger]_vars

\* --------------------------------------------------------- handleLoopEnded

LoopFrame ==
  UNCHANGED <<sessionState, ctxVars, avatarRef, tstate, isEnglish,
              lastAvatarMessageTime, seqVars, shouldUnmute, inv, video, calls, midVars,
              cleanup, route, logger, obsVars, startsSinceInactive, errVars,
              stopRejected, srcObject, gateVars>>

\* the loop element plays on
LoopPlays ==
  /\ video
  /\ "loop" \in playing
  /\ loopVideoRef.currentTime < LoopLen
  /\ loopVideoRef' = [loopVideoRef EXCEPT !.currentTime = @ + 1]
  /\ UNCHANGED <<timers, presVars>>
  /\ LoopFrame

\* the loop element reaches the end of its clip: the element either seeks to
\* the start by itself (its loop attribute) or, where that is not honoured,
\* pauses and queues its 'ended' event
LoopAtEnd(wraps) ==
  /\ video
  /\ "loop" \in playing
  /\ loopVideoRef.currentTime = LoopLen
  /\ IF wraps
       THEN /\ loopVideoRef' = [loopVideoRef EXCEPT !.currentTime = 0]
            /\ UNCHANGED playing
       ELSE /\ loopVideoRef.restarts < MaxLoopEnds
            /\ loopVideoRef' = [loopVideoRef EXCEPT !.ended = TRUE]
            /\ playing' = playing \ {"loop"}
  /\ UNCHANGED <<timers, videoState, isEndingVideoPlaying, isErrorVideoPlaying,
                 endingLanguage, elemVars>>
  /\ LoopFrame

\* (mutation of HandleLoopEnded: the handler goes through
\* handleVideoStateChange('loop') as the handlers of the other clips do)
HandleLoopEndedSwitches ==
  /\ loopVideoRef.ended
  /\ loopVideoRef' = [loopVideoRef EXCEPT !.ended = FALSE, !.restarts = @ + 1]
  /\ LET p == HandleVideoStateChange(Pres, videoState, "loop")
     IN /\ Render(p, isEnglish, sessionState)
        /\ timers' = timers \cup Added(p, isEnglish, sessionState)
  /\ UNCHANGED elemVars
  /\ LoopFrame

\* handleLoopEnded: currentTime = 0 and play() on the loop element
HandleLoopEnded ==
  /\ loopVideoRef.ended
  /\ loopVideoRef' = [loopVideoRef EXCEPT !.currentTime = 0, !.ended = FALSE,
                                          !.restarts = @ + 1]
  /\ playing' = playing \cup {"loop"}
  /\ UNCHANGED <<timers, videoState, isEndingVideoPlaying, isErrorVideoPlaying,
                 endingLanguage, elemVars>>
  /\ LoopFrame

\* a session up to the avatar's speech, with the playback of the loop clip
NextLoop ==
  \/ \E i \in Avatars, e \in BOOLEAN : ClickStart(i, e)
  \/ \E i \in Avatars : CleanupDone(i)
  \/ \E i \in Avatars : StartResolve(i)
  \/ \E i \in Avatars : VoiceResolve(i)
  \/ \E a \in Avatars : StreamReady(a)
  \/ \E a \in Avatars : AvatarStartTalking(a)
  \/ \E a \in Avatars : AvatarStopTalking(a)
  \/ FireTimer
  \/ FireVideoTimer
  \/ IntroEnded
  \/ LoopPlays
  \/ \E wraps \in BOOLEAN : LoopAtEnd(wraps)
  \/ HandleLoopEnded
  \/ Tick

SpecLoop == InitVideo /\ [][NextLoop]_vars

\* -------------------------------------------------------- handleMiddleClick

MIDDLE_CLICK_MS == 3000

\* a startSessionV2 invocation that has not reached its end
StartInProgress == \E j \in Avatars : inv[j].pc \in {"token", "starting", "voicechat"}

\* a middle click on the video area, handled by the handleMiddleClick of the
\* current render; it returns at once unless the session is INACTIVE and
\* isSessionStarting is false.  With a timer pending the click is the second
\* of a double click: the timer is cleared, isSessionStarting is set and
\* startSessionV2(true, true) is called.  Else the 3000 ms timer is set (tgt:
\* whether a start was under way when the click came).
MiddleClick ==
  /\ sessionState = "inactive" /\ ~isSessionStarting
  /\ \E i \in Avatars : inv[i].pc = "idle"
  /\ IF middleClickTimer # 0
       THEN /\ isSessionStarting' = TRUE
            /\ \E i \in Avatars : StartSessionV2(i, TRUE)
       ELSE /\ middleClickTimer' = FreshId(timers)
            /\ timers' = timers \cup
                 {[Handle("middle", MIDDLE_CLICK_MS, 0, FreshId(timers))
                     EXCEPT !.tgt = IF StartInProgress THEN "busy" ELSE "free"]}
            /\ UNCHANGED <<sessionState, ctxVars, avatarRef, tstate, isEnglish,
                           lastAvatarMessageTime, seqVars, shouldUnmute, inv, video,
                           calls, auxVars, isSessionStarting, presVars, obsVars,
                           startsSinceInactive, errVars, stopRejected, srcObject,
                           gateVars>>

\* the callback of the middle-click timer: the sessionState and
\* isSessionStarting it tests are those of the render of the click, INACTIVE
\* and false, so the test never returns; isSessionStarting is set and
\* startSessionV2(true, false) is called
FireMiddleClick(t) ==
  /\ Due(t) /\ t.kind = "middle"
  /\ isSessionStarting' = TRUE
  /\ \E i \in Avatars : StartSessionV2(i, FALSE)

\* sessions started by the buttons and by middle clicks, up to the end of
\* startSessionV2
NextMiddle ==
  \/ MiddleClick
  \/ \E t \in timers : FireMiddleClick(t)
  \/ \E i \in Avatars, e \in BOOLEAN : ClickStart(i, e)
  \/ \E i \in Avatars : CleanupDone(i)
  \/ \E i \in Avatars : StartResolve(i)
  \/ \E i \in Avatars : VoiceResolve(i)
  \/ \E i \in Avatars : TokenFail(i)
  \/ Tick

SpecMiddle == InitOverlap /\ [][NextMiddle]_vars
\* ================================================================ claims

\* the sequencer's pending timers of one kind
Pending(k) == {t \in timers : t.kind = k}

\* the timestamp of the closure of timer t is reliable
Reliable(t) == inv[t.inv].last.set /\ inv[t.inv].last.age > 0

\* ------------------------------------------------------------------- C1
\* C1: in every reachable state at most one of the debounce timer and the
\* countdown timer is pending, and every start of a countdown sequence (an
\* AVATAR_STOP_TALKING) leaves the new debounce timer, armed for 3000 ms and
\* held by debounceTimerRef, as the only pending timer of the sequencer.
C1_OneSequencerTimer ==
  /\ [](Cardinality(SeqPending) <= 1)
  /\ [][\A a \in Avatars : AvatarStopTalking(a) =>
          /\ countdownTimerRef' = 0
          /\ \E t \in timers' :
               /\ SeqPending' = {t}
               /\ t.kind = "debounce"
               /\ t.left = DEBOUNCE_MS
               /\ t.id = debounceTimerRef']_vars

\* a countdown is pending while the avatar can stop talking again: the next
\* start of a countdown sequence has a countdown timer to cancel
C1_Witness ==
  \E a \in Avatars, t \in timers :
    /\ tstate[a] = "live"
    /\ countdownFired < MaxStarts
    /\ t.kind = "countdown"
    /\ t.left < COUNTDOWN_MS

\* ------------------------------------------------------------------- C2
\* C2: an AVATAR_START_TALKING leaves no sequencer timer pending; a countdown
\* completes only from a pending countdown timer that is due, and the
\* sequencer gets a pending timer again only by an AVATAR_STOP_TALKING.
C2_StartTalkingEndsCycle ==
  /\ [][\A a \in Avatars : AvatarStartTalking(a) =>
          SeqPending' = {} /\ debounceTimerRef' = 0 /\ countdownTimerRef' = 0]_vars
  /\ [][countdownFired' # countdownFired =>
          \E t \in Pending("countdown") : t.left = 0 /\ t \notin timers']_vars
  /\ [][(SeqPending = {} /\ SeqPending' # {}) =>
          \E a \in Avatars : AvatarStopTalking(a)]_vars

\* the countdown timer is due and the avatar of the session is live: an
\* AVATAR_START_TALKING can still arrive before the callback runs
C2_Witness ==
  \E a \in Avatars, t \in Pending("countdown") :
    tstate[a] = "live" /\ t.left = 0 /\ avatarRef = a

\* ------------------------------------------------------------------- C3
\* C3: each of AVATAR_START_TALKING, AVATAR_TALKING_MESSAGE, USER_START, a
\* session stop (the close button) and STREAM_DISCONNECTED leaves no sequencer
\* timer pending.
C3_EveryCancelCancels ==
  [][(\/ \E a \in Avatars : AvatarStartTalking(a)
      \/ \E a \in Avatars : AvatarTalkingMessage(a)
      \/ \E a \in Avatars : UserStart(a)
      \/ \E a \in Avatars : StreamDisconnected(a, FALSE)
      \/ ManualStop)
     => SeqPending' = {}]_vars

\* ------------------------------------------------------------------- C4
\* C4 as claimed: the debounce callback arms the countdown only when the
\* timestamp is reliable and at least 2000 ms old; otherwise it leaves no
\* sequencer timer pending.
C4_ArmsOnlyIfReliable ==
  [][\A t \in timers : FireDebounce(t) =>
       IF Reliable(t) /\ inv[t.inv].last.age >= RECENT_MS
         THEN Pending("countdown")' # {}
         ELSE SeqPending' = {}]_vars

\* C4 as the code has it: the debounce callback returns, leaving no sequencer
\* timer pending, only when the timestamp is reliable and less than 2000 ms
\* old; with a timestamp that is zero, not in the past, or at least 2000 ms
\* old it arms the countdown for 5000 ms, held by countdownTimerRef, and
\* nulls debounceTimerRef.
C4_ArmsUnlessRecent ==
  [][\A t \in timers : FireDebounce(t) =>
       IF Reliable(t) /\ inv[t.inv].last.age < RECENT_MS
         THEN SeqPending' = {}
         ELSE /\ debounceTimerRef' = 0
              /\ \E c \in timers' :
                   /\ SeqPending' = {c}
                   /\ c.kind = "countdown"
                   /\ c.left = COUNTDOWN_MS
                   /\ c.id = countdownTimerRef']_vars

\* the countdown was armed by a debounce callback whose closure holds the
\* timestamp 0
C4_Witness ==
  \E c \in Pending("countdown") :
    c.left = COUNTDOWN_MS /\ ~inv[c.inv].last.set /\ countdownTimerRef = c.id

\* ------------------------------------------------------------------- C5
\* C5: the language of every session-ending event is the language of the most
\* recent session-starting event.
C5_EndingLanguage == endingCount > 0 => endingLang = startingLang

\* ------------------------------------------------------------------- C6
\* C6: a countdown completion calls stopAvatar() once in the same step and
\* dispatches nothing yet; it leaves one new timer of 100 ms, and every
\* session-ending event is dispatched by such a timer when it is due: the
\* events dispatched and those still to come are as many as the countdowns
\* that completed.
C6_StopThenEnding ==
  /\ [](endingCount + Cardinality(Pending("ending")) = countdownFired)
  /\ [][countdownFired' # countdownFired =>
          /\ countdownFired' = countdownFired + 1
          /\ teardownCalls'[avatarRef] = teardownCalls[avatarRef] + 1
          /\ endingCount' = endingCount
          /\ \E t \in Pending("ending")' \ Pending("ending") :
               t.left = ENDING_DELAY_MS]_vars
  /\ [][endingCount' # endingCount =>
          /\ endingCount' = endingCount + 1
          /\ countdownFired' = countdownFired
          /\ teardownCalls' = teardownCalls
          /\ \E t \in Pending("ending") : t.left = 0 /\ t \notin timers']_vars

\* the countdown has completed, stopAvatar() was called and the session-ending
\* event is still to come
C6_Witness ==
  /\ countdownFired = 1
  /\ endingCount = 0
  /\ teardownCalls[avatarRef] = 1
  /\ \E t \in Pending("ending") : t.left = ENDING_DELAY_MS

\* ------------------------------------------------------------------- C7
\* C7: the scenario of one Turkish session.  The 'session-starting' event
\* leaves the presentation at intro; an AVATAR_START_TALKING leaves it at
\* streaming with the intro element paused; once the countdown has completed
\* and its stop() was the only call of stopAvatar(), no other call follows;
\* the session-ending event carries 'tr' and announces the ending clip; the
\* ending element's data, or the 200 ms fallback, leaves the presentation at
\* ending, and the end of the ending clip leaves it at loop.
C7_EndToEnd ==
  /\ [][\A i \in Avatars : ClickStart(i, FALSE) => videoState' = "intro"]_vars
  /\ [][\A a \in Avatars : AvatarStartTalking(a) =>
          videoState' = "streaming" /\ "intro" \notin playing']_vars
  /\ [][\A a \in Avatars :
          (countdownFired = 1 /\ teardownCalls[a] = 1) =>
            teardownCalls'[a] = 1]_vars
  /\ [][(endingCount' # endingCount /\ startingLang = "tr") =>
          endingLang' = "tr" /\ isEndingVideoPlaying']_vars
  /\ [][((EndingLoadedData /\ endingHandler # "resolve")
         \/ \E t \in timers : t.kind = "endFallback" /\ FireFallback(t)) =>
          videoState' = "ending"]_vars
  /\ [][ClipEnded("ending") => videoState' = "loop"]_vars

\* ------------------------------------------------------------------- C8
\* C8: per transport object stopAvatar() is called at most once.
C8_OneTeardown == \A a \in Avatars : teardownCalls[a] <= 1

\* ------------------------------------------------------------------- C9
\* C9: a start made while the session state is CONNECTING or CONNECTED throws:
\* the session state stays, handleStream is not registered, createStartAvatar
\* is not called and the catch block runs.
C9_StartRejectedWhenActive ==
  [][\A i \in Avatars :
       (CleanupDone(i) /\ sessionState \in {"connecting", "connected"}) =>
         /\ sessionState' = sessionState
         /\ readyReg' = readyReg
         /\ tstate'[i] # "starting"
         /\ inv'[i].pc = "failed"]_vars

\* ------------------------------------------------------------------ C10
\* C10: createStartAvatar is called at most once before the session state is
\* INACTIVE again.
C10_OneStartInFlight == startsSinceInactive <= 1


\* ------------------------------------------------------------------ C16
\* C16 as claimed: while the level has been above the threshold for less than
\* the sustain duration the gate has called no mute in that episode, and once
\* it has been above it for the sustain duration and one millisecond the gate
\* has called exactly one.
C16_Hysteresis ==
  /\ (highVolumeStartTimeRef.set /\ highVolumeStartTimeRef.age < sustainDuration)
       => episodeMutes = 0
  /\ (highVolumeStartTimeRef.set /\ highVolumeStartTimeRef.age >= sustainDuration + 1)
       => episodeMutes = 1

\* C16 as the code has it: no mute before the sustain duration; after the
\* sustain duration and one millisecond exactly one mute when the muted flag
\* was clear as the episode began, and none when it was set.
C16_HysteresisFromClear ==
  /\ (highVolumeStartTimeRef.set /\ highVolumeStartTimeRef.age < sustainDuration)
       => episodeMutes = 0
  /\ (highVolumeStartTimeRef.set /\ highVolumeStartTimeRef.age >= sustainDuration + 1)
       => episodeMutes = (IF episodeStartMuted THEN 0 ELSE 1)

\* a sustained episode that began with the muted flag set
C16_Witness ==
  /\ isMonitoringRef
  /\ highVolumeStartTimeRef.set
  /\ highVolumeStartTimeRef.age >= sustainDuration + 1
  /\ episodeStartMuted

\* ------------------------------------------------------------------ C17
\* the volumes of the scenario and of the samples kept
Scenario == <<5, 5, 25, 25, 25>>
SeriesVolumes == [k \in 1..Len(series) |-> series[k].volume]
SeriesCalls == [k \in 1..Len(series) |-> series[k].call]

\* C17 as claimed: sampled every 100 ms from the start of a run, the series
\* 5, 5, 25, 25, 25 gets the calls none, none, mute, none, none.
C17_MuteAtThird ==
  SeriesVolumes = Scenario => SeriesCalls = <<"none", "none", "mute", "none", "none">>

\* C17 as the code has it: the calls are none, none, none, mute, none: the one
\* mute comes at the fourth sample, 100 ms after the first sample above the
\* threshold, and there is no unmute.
C17_MuteAtFourth ==
  SeriesVolumes = Scenario => SeriesCalls = <<"none", "none", "none", "mute", "none">>

\* the five samples of the scenario have been taken
C17_Witness == isMonitoringRef /\ SeriesVolumes = Scenario

\* ------------------------------------------------------------------ C18
\* C18: a sample calls mute only when the muted flag is clear, the latest call
\* of the run is not a mute and the level has been above the threshold for the
\* sustain duration; it calls unmute only when the flag is set, the latest
\* call of the run is a mute and the level has been at or below the threshold
\* for the sustain duration.
C18_CallsAlternate ==
  [][\A volume \in Volumes, d \in Gaps : ProcessVolumeLevel(volume, d) =>
       /\ gateFired' = "mute" =>
            /\ ~currentlyMutedRef
            /\ gateLast # "mute"
            /\ volume > volumeThreshold
            /\ highVolumeStartTimeRef'.age >= sustainDuration
       /\ gateFired' = "unmute" =>
            /\ currentlyMutedRef
            /\ gateLast = "mute"
            /\ volume <= volumeThreshold
            /\ lowVolumeStartTimeRef'.age >= sustainDuration]_vars

\* the run has called mute and then unmute
C18_Witness == isMonitoringRef /\ gateFired = "unmute" /\ gateLast = "unmute"

C20_GateStoppedWhenInactive == sessionState = "inactive" => ~isMonitoringRef

\* ------------------------------------------------------------------ C11
\* C11: when the transport's teardown call rejects, stop() still leaves the
\* session state INACTIVE and the stream released.
C11_StopCompletes ==
  [][StopReject => (sessionState' = "inactive" /\ ~stream')]_vars

\* ------------------------------------------------------------------ C13
\* the stop() calls made so far
StopCalls == teardownCalls

\* the pending rechecks of handleStreamDisconnected
Rechecks == {t \in timers : t.kind = "deferStop"}

\* C13: a stream-disconnected signal with the avatar-talking flag set calls no
\* stop and arms one recheck 3000 ms ahead; the recheck calls stop once and
\* arms no further wait; a signal with the flag clear calls stop at once and
\* arms no recheck.
C13_DeferredStop ==
  /\ [][\A a \in Avatars : StreamDisconnected(a, TRUE) =>
          /\ StopCalls' = StopCalls
          /\ pendingStops' = pendingStops
          /\ Rechecks' = {Timer("deferStop", DISCONNECT_GRACE_MS, a, "none")}]_vars
  /\ [][\A t \in Rechecks : FireDeferStop(t) =>
          /\ t.left = 0
          /\ StopCalls' = [StopCalls EXCEPT ![avatarRef] = @ + 1]
          /\ pendingStops' = pendingStops + 1
          /\ Rechecks' = Rechecks \ {t}]_vars
  /\ [][\A a \in Avatars : StreamDisconnected(a, FALSE) =>
          /\ StopCalls' = [StopCalls EXCEPT ![avatarRef] = @ + 1]
          /\ Rechecks' = {}]_vars

\* a recheck is under way: part of the grace window has passed and no stop()
\* has been called
C13_Witness ==
  \E t \in Rechecks :
    /\ 0 < t.left /\ t.left < DISCONNECT_GRACE_MS
    /\ StopCalls[t.inv] = 0
    /\ pendingStops = 0

\* ------------------------------------------------------------------ C14
\* the invocations of startSessionV2 that have failed
Failed == {i \in Avatars : inv[i].pc = "failed"}

C15_LeavesConnecting ==
  (Failed # {} /\ sessionState = "connecting") ~> (sessionState = "inactive")

\* ------------------------------------------------------------------ C12
\* the edges of the session state
Edges ==
  {<<"inactive", "connecting">>, <<"connecting", "connected">>}
    \cup {<<s, "inactive">> : s \in {"connecting", "connected"}}

\* C12: the session state changes along INACTIVE -> CONNECTING,
\* CONNECTING -> CONNECTED and any -> INACTIVE only, and no stream-ready event
\* moves an INACTIVE session to CONNECTED.
C12_StateEdges ==
  [][/\ sessionState' # sessionState => <<sessionState, sessionState'>> \in Edges
     /\ \A a \in Avatars : StreamReady(a) =>
          ~(sessionState = "inactive" /\ sessionState' = "connected")]_vars

\* ------------------------------------------------------------------ C21
\* the elements startMonitoring cannot monitor, and the ways it refuses them
Unusable == {"none", "null", "notrack", "throws"}
Refusals == {"nostream", "notrack", "caught"}

\* C21: startMonitoring called with no element, no stream, a stream without
\* an audio track or a stream whose audio graph cannot be built changes no ref
\* of the gate, nor the session state, nor the mute boolean; and after such a
\* call the gate is not monitoring until a later call starts it.
C21_StartRefused ==
  /\ [][\A el \in Unusable : CallStartMonitoring(el) =>
          /\ gateRefs' = gateRefs
          /\ sessionState' = sessionState
          /\ isMuted' = isMuted
          /\ startResult' \in Refusals \cup {"already"}]_vars
  /\ [](startResult \in Refusals => ~isMonitoringRef)

\* a gate that has muted in an earlier run was given a stream whose audio
\* graph cannot be built
C21_Witness == startResult = "caught" /\ gateLast = "mute" /\ ~isMonitoringRef

\* ------------------------------------------------------------------ C22
\* the delayed actions of AvatarVideo that are still to run: its timers and
\* the loads it waits for
PresKinds == {"play", "playWait", "loadIntro", "reload", "endLoad", "errLoad",
              "endFallback", "errFallback"}
Settled ==
  /\ \A t \in timers : t.kind \notin PresKinds
  /\ ~endingLoading
  /\ ~errorLoading

\* C22: once the delayed actions of AvatarVideo have run, exactly one video
\* element plays and it is the element of videoState.
C22_OneSurface == (video /\ Settled) => playing = {videoState}

\* ------------------------------------------------------------------ C23
\* 'avatar-start-talking' reaches AvatarVideo: dispatched by the handler of
\* AVATAR_START_TALKING or by the timer set after startVoiceChat
TalkingEvent ==
  \/ \E a \in Avatars : AvatarStartTalking(a)
  \/ \E t \in timers : FireForceTalk(t)

\* the timers of AvatarVideo that are pending
PresTimers == {t \in timers : t.kind \in PresKinds}

C24_ConnectedFromIdleOrIntro ==
  [][(video /\ sessionState # "connected" /\ sessionState' = "connected") =>
       /\ videoState \in {"ending", "error"} => videoState' = videoState
       /\ videoState' # videoState =>
            (videoState \in {"loop", "intro"} /\ videoState' = "streaming")]_vars

BecomesInactive == sessionState # "inactive" /\ sessionState' = "inactive"

C26_EndingFirst ==
  /\ video /\ sessionState = "inactive" /\ isEndingVideoPlaying
  /\ videoState = "streaming"

\* the other order: 'session-ending' arrived after INACTIVE had shown the loop
C26_InactiveFirst ==
  /\ video /\ sessionState = "inactive" /\ isEndingVideoPlaying
  /\ videoState = "loop" /\ \E t \in timers : t.kind = "endLoad" /\ t.tgt = "loop"

C27_EndingEnded ==
  /\ video /\ endingHandler # "none" /\ ~isEndingVideoPlaying /\ ~endingLoading
  /\ sessionState = "inactive"
  /\ videoState = "loop" /\ playing = {"loop"} /\ Settled

\* ------------------------------------------------------------------ C28
\* C28: when the play of the clip of the current state (intro or error)
\* fails, the presentation returns to the loop: videoState becomes loop, or a
\* callback that plays the loop is set.
C28_PlayFailureToLoop ==
  [][\A t \in timers :
       (video /\ FirePlayFails(t) /\ t.tgt = videoState) =>
         \/ videoState' = "loop"
         \/ \E u \in timers' : u.kind = "play" /\ u.tgt = "loop" /\ u \notin timers]_vars

\* ------------------------------------------------------------------ C29
\* C29: whenever an element starts to play it is the only one that plays,
\* every other one having been paused; and a playVideo call one of whose
\* 'pause' confirmations cannot arrive any more does not stay suspended for
\* longer than the 500 ms fallback.
C29_TwoPhase ==
  /\ [][~(playing' \subseteq playing) => Cardinality(playing') = 1]_vars
  /\ [](\A c \in calls : c.lost # {} => c.age <= LOAD_WAIT_MS)

\* ------------------------------------------------------------------ C30
\* more than one element plays, or none does while a state other than the
\* loop is shown
Drift == Cardinality(playing) > 1 \/ (playing = {} /\ videoState # "loop")

\* C30: while the elements have drifted from the presentation state, a
\* callback of the component that re-issues the stop and the play is pending.
C30_DriftIsChecked == (video /\ Drift) => ~Settled

\* ------------------------------------------------------------------ C31
\* C31: a 200 ms fallback that comes due after the data of its element has
\* arrived does nothing, and the 50 ms callback of a transition to the intro,
\* ending or error state plays its clip only while that state is the current
\* one.
C31_NoOrphanTimer ==
  /\ [][\A t \in timers :
          (video /\ FireFallback(t)
             /\ (IF t.kind = "endFallback" THEN ~endingLoading ELSE ~errorLoading)) =>
            /\ UNCHANGED presVars
            /\ timers' = timers \ {t}]_vars
  /\ [][\A t \in timers :
          (video /\ FirePlay(t) /\ t.tgt \in {"intro", "ending", "error"}) =>
            t.tgt = videoState]_vars

\* ------------------------------------------------------------------ C32
\* C32: while the loop or the ending clip is the presentation state, and while
\* the session is INACTIVE, the context's isMuted is true.
C32_MutedWhileIdle ==
  video => /\ videoState \in {"loop", "ending"} => isMuted
           /\ sessionState = "inactive" => isMuted

\* ------------------------------------------------------------------ C33
\* C33: a force-close request is sent only for a session of the second list
\* and only once every session of the first list has had exactly one close
\* request; with an empty first list no close and no force-close request is
\* sent.
C33_CleanupOrder ==
  /\ \A s \in Sessions :
       /\ cleanup.hard[s] > 0 => s \in cleanup.relisted
       /\ cleanup.hard[s] > 0 =>
            \A r \in Sessions : cleanup.closes[r] = IF r \in cleanup.listed THEN 1 ELSE 0
       /\ cleanup.closes[s] <= 1
       /\ cleanup.closes[s] > 0 => s \in cleanup.listed
  /\ cleanup.pc \in {"relist", "hard", "hardWait", "final"} =>
       \A r \in cleanup.listed : cleanup.closes[r] = 1
  /\ cleanup.listed = {} =>
       \A s \in Sessions : cleanup.closes[s] = 0 /\ cleanup.hard[s] = 0

\* the sessions of the second list, one of them not in the first, have been
\* force-closed after the close request of the first list failed
C33_Witness ==
  /\ cleanup.pc = "returned"
  /\ cleanup.listed = {1}
  /\ cleanup.relisted = {1, 2}
  /\ cleanup.hard = [s \in Sessions |-> 1]
  /\ "close" \in cleanup.failed

\* the first list is empty and closeAllActiveSessions has returned
C33_EmptyList ==
  /\ cleanup.pc = "returned"
  /\ cleanup.listed = {}
  /\ "list" \notin cleanup.failed

\* ------------------------------------------------------------------ C34
\* C34: whichever of the list, close and force-close requests fail,
\* closeAllActiveSessions never throws and always has a next step until it
\* returns, no 'session-error' is dispatched, and the start that follows its
\* return makes the transport object and goes on to createStartAvatar.
C34_CleanupNeverBlocks ==
  /\ [](cleanup.pc # "threw")
  /\ [](cleanup.pc \in {"list", "close", "closeWait", "relist", "hard",
                        "hardWait", "final"} => ENABLED (CleanupStep \/ Tick))
  /\ [](errorCount = 0)
  /\ [][\A i \in Avatars :
          StartAfterCleanup(i) =>
            /\ avatarRef' = i
            /\ inv'[i].pc = "starting"
            /\ tstate'[i] = "starting"]_vars

\* the same for the closeAllActiveSessions of lines 1448-1556 alone
C34_CurrentVariant ==
  /\ cleanup.pc # "threw"
  /\ errorCount = 0

\* ------------------------------------------------------------------ C35
\* C35: the force-close endpoint makes at most 3 attempts and sends at most 3
\* upstream stop requests, the waits between consecutive attempts increase
\* and lie between 1000 and 3000 ms, and it always returns a response.
C35_BoundedRetry ==
  /\ route.attempt <= maxRetries
  /\ route.sent <= 3
  /\ \A k \in DOMAIN route.waits :
       /\ route.waits[k] >= 1000 /\ route.waits[k] <= 3000
       /\ k > 1 => route.waits[k - 1] < route.waits[k]
  /\ route.pc = "done" => route.status \in {200, 207, 400, 401, 500}

\* the parts of C35 that hold: at most 3 attempts, and a response whatever the
\* upstream does
C35_ThreeAttempts ==
  /\ route.attempt <= maxRetries
  /\ route.pc = "done" => route.status \in {200, 207, 400, 401, 500}
  /\ route.pc = "done" /\ route.status = 207 => route.attempt = maxRetries

\* every attempt has failed and the 207 response is returned
C35_AllFailed ==
  /\ route.pc = "done"
  /\ route.status = 207
  /\ route.sent = 5

\* ------------------------------------------------------------------ C36
\* C36: the logger's buffer never holds more than 100 entries, it holds the
\* entries pushed last in the order of their push, and a push to a full
\* buffer removes the oldest entry and no other.
C36_BoundedBuffer ==
  /\ [](/\ Len(logger.logBuffer) <= 100
        /\ Len(logger.logBuffer) = IF logger.pushed < 100 THEN logger.pushed ELSE 100
        /\ \A k \in DOMAIN logger.logBuffer :
             logger.logBuffer[k] = logger.pushed - Len(logger.logBuffer) + k)
  /\ [][(Len(logger.logBuffer) = 100 /\ logger.pushed' # logger.pushed) =>
          /\ Len(logger.logBuffer') = 100
          /\ \A k \in 1..99 : logger.logBuffer'[k] = logger.logBuffer[k + 1]
          /\ logger.logBuffer'[100] = logger.pushed']_vars

\* two entries have been pushed to the full buffer
C36_Witness ==
  /\ logger.pushed = 102
  /\ Head(logger.logBuffer) = 3
  /\ Len(logger.logBuffer) = 100

\* ------------------------------------------------------------------ C40
\* C40: a call of a logger method whose level is enabled returns and pushes
\* exactly one entry; a call whose level is disabled pushes nothing.
C40_OneEntryPerCall ==
  [][\A m \in {"error", "warn", "info", "debug", "trace"} :
       (logger.made /\ logger'.last[1] = m /\ logger' # logger) =>
         IF LevelOf(m) <= logger.logLevel
           THEN /\ logger'.last[2] = "returned"
                /\ logger'.pushed = logger.pushed + 1
           ELSE logger'.pushed = logger.pushed]_vars

\* the part of C40 that holds: the methods that write to the console
C40_ConsoleMethods ==
  [][\A m \in {"error", "warn"} :
       (logger.made /\ logger'.last[1] = m /\ logger' # logger) =>
         IF LevelOf(m) <= logger.logLevel
           THEN /\ logger'.last[2] = "returned"
                /\ logger'.pushed = logger.pushed + 1
           ELSE logger'.pushed = logger.pushed]_vars

\* debug was called at the DEBUG level
C40_DebugCalled ==
  /\ logger.logLevel = LogLevel.DEBUG
  /\ logger.last = <<"debug", "threw">>

\* ------------------------------------------------------------------ C37
\* C37: the handler of the loop element's 'ended' event seeks the loop clip to
\* its start and plays it, and changes neither the presentation state, nor
\* the session state, nor a timer of the sequencer, nor any other timer.
C37_LoopRestarts ==
  [][(loopVideoRef.ended /\ ~loopVideoRef'.ended) =>
       /\ loopVideoRef'.currentTime = 0
       /\ "loop" \in playing'
       /\ videoState' = videoState
       /\ sessionState' = sessionState
       /\ UNCHANGED seqVars
       /\ timers' = timers]_vars

\* the loop was restarted by its handler while it was the presentation state
\* of a session whose debounce timer is pending
C37_Witness ==
  /\ loopVideoRef.restarts > 0
  /\ ~loopVideoRef.ended
  /\ "loop" \in playing
  /\ \E t \in timers : t.kind = "debounce"

\* the loop was restarted by its handler while the stream was shown
C37_WhileStreaming ==
  /\ loopVideoRef.restarts > 0
  /\ videoState = "streaming"
  /\ "loop" \in playing

\* ------------------------------------------------------------------ C38
\* C38: a debounce callback that runs always sets the countdown timer: the
\* timestamp it reads is never a reliable one less than 2000 ms old.
C38_DebounceAlwaysArms ==
  [][\A t \in timers :
       FireDebounce(t) =>
         /\ ~(inv[t.inv].last.set /\ inv[t.inv].last.age > 0
                /\ inv[t.inv].last.age < RECENT_MS)
         /\ countdownTimerRef' # 0
         /\ \E u \in timers' : u.kind = "countdown" /\ u.id = countdownTimerRef'
                                 /\ u.left = COUNTDOWN_MS]_vars

\* the countdown was set by a debounce callback that read a timestamp of an
\* earlier session
C38_Witness ==
  \E u \in timers :
    /\ u.kind = "countdown" /\ u.id = countdownTimerRef
    /\ inv[u.inv].last.set
    /\ inv[u.inv].last.age >= RECENT_MS

\* ------------------------------------------------------------------ C39
\* C39: the callback of a middle click starts one Turkish session 3000 ms
\* after the click, a second middle click while the timer is pending clears
\* the timer and starts one English session, and a middle click that came
\* while the session was not INACTIVE or a start was under way starts nothing.
C39_MiddleClickStart ==
  /\ [][\A t \in timers :
          FireMiddleClick(t) =>
            /\ t.tgt = "free"
            /\ ~StartInProgress
            /\ sessionState = "inactive"]_vars
  /\ [][\A t \in timers :
          FireMiddleClick(t) =>
            /\ Cardinality({i \in Avatars : inv[i].pc = "idle" /\ inv'[i].pc = "token"}) = 1
            /\ \A i \in Avatars :
                 inv[i].pc = "idle" /\ inv'[i].pc = "token" => ~inv'[i].arg
            /\ startingLang' = "tr"]_vars
  /\ [][(MiddleClick /\ middleClickTimer # 0) =>
          /\ ~\E u \in timers' : u.kind = "middle"
          /\ Cardinality({i \in Avatars : inv[i].pc = "idle" /\ inv'[i].pc = "token"}) = 1
          /\ \A i \in Avatars :
               inv[i].pc = "idle" /\ inv'[i].pc = "token" => inv'[i].arg
          /\ startingLang' = "en"]_vars
  /\ [](\A t \in timers : t.kind = "middle" => t.left <= 3000 /\ t.id = middleClickTimer)

\* the parts of C39 that hold: the language and the number of the sessions
\* started by one and by two middle clicks
C39_SingleAndDouble ==
  /\ [][\A t \in timers :
          FireMiddleClick(t) =>
            /\ Cardinality({i \in Avatars : inv[i].pc = "idle" /\ inv'[i].pc = "token"}) = 1
            /\ \A i \in Avatars :
                 inv[i].pc = "idle" /\ inv'[i].pc = "token" => ~inv'[i].arg
            /\ startingLang' = "tr"]_vars
  /\ [][(MiddleClick /\ middleClickTimer # 0) =>
          /\ ~\E u \in timers' : u.kind = "middle"
          /\ Cardinality({i \in Avatars : inv[i].pc = "idle" /\ inv'[i].pc = "token"}) = 1
          /\ \A i \in Avatars :
               inv[i].pc = "idle" /\ inv'[i].pc = "token" => inv'[i].arg
          /\ startingLang' = "en"]_vars
  /\ [](\A t \in timers : t.kind = "middle" => t.left <= 3000 /\ t.id = middleClickTimer)

\* a second startSessionV2 runs, started by the timer of a middle click, while
\* the one started by a button has not ended
C39_TwoStarts ==
  /\ isSessionStarting
  /\ Cardinality({i \in Avatars : inv[i].pc \in {"token", "starting", "voicechat"}}) = 2
====
